---- MODULE Spec2Model ----
(***************************************************************************)
(* Lead enrichment and recruitment pipeline of sales-automation-backend.   *)
(*                                                                         *)
(* The document store (collection "leads1") is a sequence of Lead          *)
(* documents in insertion order; a document's position is its _id.  The    *)
(* request handlers (bulk-load, recruit, manual lead creation) are run by  *)
(* a fixed set of workers; each handler is one action per await point, so  *)
(* that two requests can interleave exactly where the asyncio event loop   *)
(* can switch between them.  SpecSeq runs one request at a time, Spec lets *)
(* the requests of different workers overlap.                              *)
(***************************************************************************)
EXTENDS Integers, Sequences, FiniteSets, TLC

\* ---- bounds of the model ------------------------------------------------
MaxNpi == 2          \* provider identifiers known to the registry: 1..MaxNpi
MaxBatch == 2        \* entries in one registry response
MaxCalls == 3        \* requests received in one run
MaxFound == 2        \* candidates in one answer of the people search
MaxTime == 2         \* the clock runs from second 0 to second MaxTime
MaxWords == 3        \* words in an organization name
MaxGather == 3       \* lookups gathered by one batch enrichment

\* ---- program constants --------------------------------------------------
\* Settings.APOLLO_TOTAL_CAP (default 500, read from the environment); the
\* model runs a deployment configured with a cap the bounded store can reach.
APOLLO_TOTAL_CAP == 1
RecruitLimit == 10   \* .limit(10) of the unvisited query
ReadyLimit == 5      \* .limit(5) of the ready-for-email query
FetchLimit == 50     \* limit=50 of the registry fetch
PageCap == 50        \* min(limit * 2, 50): the largest page asked of the registry

NPIs == 1..MaxNpi
Workers == {"w1", "w2"}
Cities == {"Novi", "Troy"}
Specialties == {"Primary Care", "Cardiology"}
\* bulk-load requests leave specialty at the default of LeadLoadRequest
LoadSpecialties == {"Primary Care"}

None == "None"                       \* Python None
DirectAddress == "dm@direct"         \* a registry direct-messaging address
ApolloEmail == "ap@apollo"           \* an email found by the Match Engine

\* Python truthiness of an Optional[str]
Truthy(s) == s # None /\ s # ""

\* ---- generic helpers ----------------------------------------------------
Min(a, b) == IF a <= b THEN a ELSE b
Max(a, b) == IF a >= b THEN a ELSE b

RECURSIVE SeqsUpTo(_, _)
SeqsUpTo(S, n) ==
    IF n = 0 THEN {<<>>}
    ELSE LET shorter == SeqsUpTo(S, n - 1)
         IN  shorter \cup {Append(s, x) : s \in {t \in shorter : Len(t) = n - 1}, x \in S}

\* prefix of length at most n: cursor.limit(n).to_list()
Limit(s, n) == SubSeq(s, 1, Min(n, Len(s)))

\* a query result: the ids (positions) of S among k..n, in natural order
RECURSIVE InOrder(_, _, _)
InOrder(S, k, n) ==
    IF k > n THEN <<>>
    ELSE IF k \in S THEN <<k>> \o InOrder(S, k + 1, n)
    ELSE InOrder(S, k + 1, n)

\* Lead.find_one({"npi": npi}): id of the first document with that npi, 0 if none
FindOneByNpi(st, npi) ==
    LET ids == InOrder({k \in 1..Len(st) : st[k].npi = npi}, 1, Len(st))
    IN  IF ids = <<>> THEN 0 ELSE ids[1]

SearchedCount(st) == Cardinality({k \in 1..Len(st) : st[k].apollo_searched})

\* ---- registry ------------------------------------------------------------
\* The registry's data for a provider does not change between fetches: the
\* provider's DIRECT endpoint is an address, absent, or an empty string.
RegistryDirectAddress(npi) ==
    IF npi % 3 = 1 THEN DirectAddress ELSE IF npi % 3 = 2 THEN "" ELSE None

\* the city of the provider's practice address
RegistryCity(npi) == IF npi % 2 = 1 THEN "Novi" ELSE "Troy"

\* One provider as returned by nppes_client.search_providers: the keys the
\* loader reads.  search_providers never returns an "email" key.
Provider(npi, city) ==
    [npi |-> npi, city |-> city, direct_messaging_address |-> RegistryDirectAddress(npi)]
Providers == {Provider(npi, RegistryCity(npi)) : npi \in NPIs}

\* One entry of the "results" array of the registry's JSON body: the provider
\* number and basic.first_name, which is a name, missing (read as ""), or null
RawEntry(npi, first_name) == [number |-> npi, first_name |-> first_name]
WellFormed(e) == Truthy(e.first_name)
RawEntries ==
    {RawEntry(npi, "Ann") : npi \in NPIs} \cup {RawEntry(1, ""), RawEntry(1, None)}

\* What one GET on the registry produces: a JSON body with results, a
\* transport or HTTP error, or a body that is not the expected JSON
RegistryAnswers ==
    {[outcome |-> "ok", results |-> r] : r \in SeqsUpTo(RawEntries, MaxBatch)}
    \cup {[outcome |-> o, results |-> <<>>] : o \in {"unavailable", "malformed"}}

RECURSIVE Extract(_, _)
Extract(results, city) ==
    IF results = <<>> THEN <<>>
    ELSE LET e == Head(results)
         IN  IF ~Truthy(e.first_name) THEN Extract(Tail(results), city)
             ELSE <<Provider(e.number, RegistryCity(e.number))>> \o Extract(Tail(results), city)

\* nppes_client.search_providers lines 139-273: on a transport error, an
\* unreadable body, or an exception while extracting any entry
\* (None.title() for a null first_name) the except clauses return []
SearchProviders(answer, city) ==
    IF answer.outcome # "ok" THEN <<>>
    ELSE LET results == Limit(answer.results, FetchLimit)
         IN  IF \E k \in 1..Len(results) : results[k].first_name = None
             THEN <<>>
             ELSE Extract(results, city)

\* no GET issued
NoAnswer == [outcome |-> "none", results |-> <<>>]

VARIABLES
    store,                \* the leads1 collection
    lookups,              \* lookups[k]: Match Engine lookups issued for document k
    pc,                   \* per worker: where its current request stands
    op,                   \* per worker: the request it runs
    location,             \* per worker: the request's location argument
    specialty,            \* per worker: the request's specialty argument
    providers,            \* load: the list fetched from the registry
    idx,                  \* load: position in providers; recruit: loop index i
    leads_loaded,         \* load: counter
    with_email_count,     \* load: counter
    unvisited_leads,      \* recruit: the selected batch (documents as read)
    apollo_enriched,      \* recruit: apollo_response["leads"], reduced to apollo_email
    enriched_count,       \* recruit: counter
    ready_leads,          \* recruit: ids returned as ready for email
    returned_count,       \* recruit: returned_count of the response
    status,               \* response status of the finished request
    sent,                 \* recruit: leads of this call handed to the Match Engine
    store0,               \* load: the collection as it was when the request started
    searched0,            \* recruit: count of apollo_searched documents at the start
    rerun,                \* load: the request repeats the previous one, same registry response
    selectedDone,         \* ids selected by a recruit call that has completed
    calls,                \* requests received so far
    raw,                  \* load: what the registry answered to this request's GET
    \* ---- Match Engine: one call of ml_client.call_apollo ----
    batch,                \* enrichment_data: the persons to look up
    cur,                  \* index of the person whose lookup is running
    epc,                  \* where the call stands
    strategies,           \* _hierarchical_search: strategies not yet tried
    searches,             \* strategies requested so far for this person
    outcomes,             \* how each of them ended: "found", "empty", "error", "scoring_error"
    people,               \* candidates of the winning strategy, scored and sorted
    strategy_used,        \* name of the winning strategy, "failed" if none
    detail_ids,           \* ids handed to enrich_person_by_id for this person
    result,               \* what this person's lookup returned
    results,              \* results of the lookups completed so far
    enriched_leads,       \* apollo_email of each lead in call_apollo's answer
    \* ---- authentication: api/auth.py, core/security.py ----
    now,                  \* the clock, in seconds
    last_logout,          \* User.last_logout of the one user, NoTime when unset
    logouts,              \* logouts completed so far
    tokens,               \* the tokens issued so far
    auth_calls,           \* token, refresh and logout requests received so far
    authed,               \* the last run of get_current_user: the token and the outcome
    \* ---- size estimation: core/emr_estimator.py ----
    est,                  \* the last call of estimate_clinic_size: the name and the estimate
    \* ---- merge for the database: lead_service._prepare_lead_for_db ----
    prepared,             \* the last call of _prepare_lead_for_db: its arguments and its result
    \* ---- batch enrichment with overlapping lookups: enrich_multiple_people ----
    gpc,                  \* where the batch enrichment stands
    people_data,          \* the leads of the batch, by npi, in input order
    outs,                 \* per index: what the lookup of that lead returned, Pending while it runs
    completed,            \* the indices in the order their lookups completed
    gathered,             \* the list asyncio.gather returned
    merged,               \* apollo_email per lead in call_apollo's answer
    gi,                   \* recruit: loop index of the update loop
    written,              \* per npi: the apollo_email recruit wrote to that record
    \* ---- outbound delivery: email_service.send_outreach_email ----
    dpc,                  \* where the delivery request stands
    dlead,                \* the Lead document as Lead.get read it, with its id (0: request without lead)
    \* ---- registry search: nppes_client.search_providers, counted ----
    fpc,                  \* where the registry search stands
    limit,                \* the limit argument of search_providers
    registry_total,       \* entries the registry holds for the query
    requests,             \* the GETs issued: offset, page size asked for, entries received
    returned,             \* entries in the list search_providers returned
    \* ---- field extraction: nppes_client.search_providers lines 147-273 ----
    extraction,           \* the last run of the extraction loop: the results read and the providers built
    \* ---- relevance classification: ApolloEmailFinder._is_medical_organization ----
    classified            \* the last call of _is_medical_organization: its arguments and its answer

engineVars == <<batch, cur, epc, strategies, searches, outcomes, people, strategy_used,
                detail_ids, result, results, enriched_leads>>

authVars == <<now, last_logout, logouts, tokens, auth_calls, authed>>

estimatorVars == <<est>>

prepareVars == <<prepared>>

gatherVars == <<gpc, people_data, outs, completed, gathered, merged, gi, written>>

deliveryVars == <<dpc, dlead>>

fetchVars == <<fpc, limit, registry_total, requests, returned>>

extractVars == <<extraction>>

classifierVars == <<classified>>

sideVars == <<engineVars, authVars, estimatorVars, prepareVars, gatherVars, deliveryVars, fetchVars, extractVars, classifierVars>>

pipelineVars ==
    <<store, lookups, pc, op, location, specialty, providers, idx, leads_loaded,
      with_email_count, unvisited_leads, apollo_enriched, enriched_count,
      ready_leads, returned_count, status, sent, store0, searched0, rerun, selectedDone, calls, raw>>

vars == <<pipelineVars, sideVars>>

\* what the actions of one component leave alone: the other components
notEngine == <<pipelineVars, authVars, estimatorVars, prepareVars, gatherVars, deliveryVars, fetchVars, extractVars, classifierVars>>
notAuth == <<pipelineVars, engineVars, estimatorVars, prepareVars, gatherVars, deliveryVars, fetchVars, extractVars, classifierVars>>
notEstimator == <<pipelineVars, engineVars, authVars, prepareVars, gatherVars, deliveryVars, fetchVars, extractVars, classifierVars>>
notGather == <<pipelineVars, engineVars, authVars, estimatorVars, prepareVars, deliveryVars, fetchVars, extractVars, classifierVars>>
notPrepare == <<pipelineVars, engineVars, authVars, estimatorVars, gatherVars, deliveryVars, fetchVars, extractVars, classifierVars>>
notFetch == <<pipelineVars, engineVars, authVars, estimatorVars, prepareVars, gatherVars, deliveryVars, extractVars, classifierVars>>
notDelivery == <<pipelineVars, engineVars, authVars, estimatorVars, prepareVars, gatherVars, fetchVars, extractVars, classifierVars>>
notClassifier == <<pipelineVars, engineVars, authVars, estimatorVars, prepareVars, gatherVars, deliveryVars, fetchVars, extractVars>>
notExtract == <<pipelineVars, engineVars, authVars, estimatorVars, prepareVars, gatherVars, deliveryVars, fetchVars, classifierVars>>

\* _prepare_lead_for_db not called yet
NoPrepared == [called |-> FALSE]

\* estimate_clinic_size not called yet
NoEstimate == [name |-> <<>>, clinic_size |-> "", confidence |-> 0, keyword |-> <<>>]

NoTime == -1
NoAuth == [token |-> [type |-> "", iat |-> NoTime, epoch |-> 0], ok |-> FALSE, stale |-> FALSE]

\* no user has logged in yet
AuthInit ==
    /\ now = 0
    /\ last_logout = NoTime
    /\ logouts = 0
    /\ tokens = {}
    /\ auth_calls = 0
    /\ authed = NoAuth

\* the result of the lookup issued for the lead with that npi
EmailFor(npi) == [email_of |-> npi]
NoResult == [email_of |-> 0]         \* the lookup returned None
Pending == [email_of |-> -1]         \* the lookup has not returned

GatherNpis == 1..MaxGather

\* _is_medical_organization not called yet
NoClassification == [called |-> FALSE]

\* the extraction loop has not run
NoExtraction == [called |-> FALSE]

\* no registry search in progress
FetchIdle ==
    /\ fpc = "idle"
    /\ limit = 0
    /\ registry_total = 0
    /\ requests = <<>>
    /\ returned = 0

\* no Lead document held
NoLead == [id |-> 0]

\* no delivery request in progress
DeliveryIdle ==
    /\ dpc = "idle"
    /\ dlead = NoLead

\* no batch enrichment in progress
GatherIdle ==
    /\ gpc = "idle"
    /\ people_data = <<>>
    /\ outs = <<>>
    /\ completed = <<>>
    /\ gathered = <<>>
    /\ merged = <<>>
    /\ gi = 0
    /\ written = [n \in GatherNpis |-> NoResult]

\* no call of the Match Engine in progress
EngineIdle ==
    /\ batch = <<>>
    /\ cur = 0
    /\ epc = "idle"
    /\ strategies = <<>>
    /\ searches = <<>>
    /\ outcomes = <<>>
    /\ people = <<>>
    /\ strategy_used = ""
    /\ detail_ids = <<>>
    /\ result = None
    /\ results = <<>>
    /\ enriched_leads = <<>>

Init ==
    /\ store = <<>>
    /\ lookups = <<>>
    /\ pc = [w \in Workers |-> "idle"]
    /\ op = [w \in Workers |-> "none"]
    /\ location = [w \in Workers |-> ""]
    /\ specialty = [w \in Workers |-> ""]
    /\ providers = [w \in Workers |-> <<>>]
    /\ idx = [w \in Workers |-> 0]
    /\ leads_loaded = [w \in Workers |-> 0]
    /\ with_email_count = [w \in Workers |-> 0]
    /\ unvisited_leads = [w \in Workers |-> <<>>]
    /\ apollo_enriched = [w \in Workers |-> <<>>]
    /\ enriched_count = [w \in Workers |-> 0]
    /\ ready_leads = [w \in Workers |-> <<>>]
    /\ returned_count = [w \in Workers |-> 0]
    /\ status = [w \in Workers |-> ""]
    /\ sent = [w \in Workers |-> 0]
    /\ store0 = [w \in Workers |-> <<>>]
    /\ searched0 = [w \in Workers |-> 0]
    /\ rerun = [w \in Workers |-> FALSE]
    /\ selectedDone = {}
    /\ calls = 0
    /\ raw = [w \in Workers |-> NoAnswer]
    /\ EngineIdle
    /\ AuthInit
    /\ est = NoEstimate
    /\ prepared = NoPrepared
    /\ GatherIdle
    /\ DeliveryIdle
    /\ FetchIdle
    /\ extraction = NoExtraction
    /\ classified = NoClassification

\* ==== bulk-load: load_leads_from_nppes ====================================

\* lines 66-81: email fallback.  provider.get("email") is always None.
LoadEmail(provider) ==
    IF Truthy(provider.direct_messaging_address)
    THEN provider.direct_messaging_address ELSE None

\* has_email derived from "is not None" instead of truthiness
LoadHasEmail_NotNone(provider) == provider.direct_messaging_address # None

LoadHasEmail(provider) == Truthy(provider.direct_messaging_address)

\* lines 94-122: the document inserted for a provider
NewLead(provider, loc, spec) ==
    [npi               |-> provider.npi,
     city              |-> provider.city,
     specialty         |-> spec,
     email             |-> LoadEmail(provider),
     has_email         |-> LoadHasEmail(provider),
     is_emailed        |-> FALSE,
     visited           |-> FALSE,
     apollo_searched   |-> FALSE,
     apollo_email      |-> None,
     enrichment_status |-> "scout_only"]

\* the duplicate check dropped
Existing_Never(st, npi) == FALSE

\* the duplicate check compares against the newest document only
Existing_LastOnly(st, npi) == Len(st) > 0 /\ st[Len(st)].npi = npi

\* line 61-62: existing = await Lead.find_one({"npi": npi})
Existing(st, npi) == FindOneByNpi(st, npi) # 0

\* a duplicate NPI refreshes the stored document from the registry
OnDuplicate_Replace(st, provider) ==
    [st EXCEPT ![FindOneByNpi(st, provider.npi)] =
        NewLead(provider, provider.city, st[FindOneByNpi(st, provider.npi)].specialty)]

\* lines 62-64: a duplicate NPI is skipped, the stored document is left alone
OnDuplicate(st, provider) == st

\* line 123: await lead.insert().  The collection has no unique index on npi
\* (pydantic Field(unique=True) declares none; Settings.indexes lists a plain
\* "npi" index), so the insert always appends.
InsertLead(st, provider, loc, spec) == Append(st, NewLead(provider, loc, spec))

\* lines 33-55: the fetched list; an empty (or failed) fetch returns "success"
\* with zeros
LoadBegin(w, resp) ==
    /\ providers' = [providers EXCEPT ![w] = resp]
    /\ store0' = [store0 EXCEPT ![w] = store]
    /\ leads_loaded' = [leads_loaded EXCEPT ![w] = 0]
    /\ with_email_count' = [with_email_count EXCEPT ![w] = 0]
    /\ IF resp = <<>>
       THEN /\ pc' = [pc EXCEPT ![w] = "done"]
            /\ status' = [status EXCEPT ![w] = "success"]
            /\ idx' = [idx EXCEPT ![w] = 0]
       ELSE /\ pc' = [pc EXCEPT ![w] = "load_check"]
            /\ status' = [status EXCEPT ![w] = ""]
            /\ idx' = [idx EXCEPT ![w] = 1]

\* lines 13-48: a bulk-load request arrives and the registry is fetched
LoadFetch(w) ==
    /\ pc[w] = "idle"
    /\ \E loc \in Cities, spec \in LoadSpecialties, answer \in RegistryAnswers :
        /\ op' = [op EXCEPT ![w] = "load"]
        /\ location' = [location EXCEPT ![w] = loc]
        /\ specialty' = [specialty EXCEPT ![w] = spec]
        /\ raw' = [raw EXCEPT ![w] = answer]
        /\ LoadBegin(w, SearchProviders(answer, loc))
    /\ calls < MaxCalls
    /\ calls' = calls + 1
    /\ UNCHANGED <<returned_count, sideVars, store, lookups, unvisited_leads, apollo_enriched, enriched_count,
                   ready_leads, sent, searched0, rerun, selectedDone>>

\* the client repeats its bulk-load request right after the response, and the
\* registry answers exactly as before
LoadFetchAgain(w) ==
    /\ pc[w] = "done"
    /\ op[w] = "load"
    /\ ~rerun[w]
    /\ LoadBegin(w, SearchProviders(raw[w], location[w]))
    /\ rerun' = [rerun EXCEPT ![w] = TRUE]
    /\ calls < MaxCalls
    /\ calls' = calls + 1
    /\ UNCHANGED <<raw, specialty, returned_count, sideVars, store, lookups, op, location, unvisited_leads, apollo_enriched,
                   enriched_count, ready_leads, sent, searched0, selectedDone>>

\* after the body of the for loop: next provider, or lines 131-145
LoadAdvancePc(w) == IF idx[w] = Len(providers[w]) THEN "done" ELSE "load_check"

\* lines 57-64: duplicate check for providers[idx]
LoadCheck(w) ==
    /\ pc[w] = "load_check"
    /\ IF Existing(store, providers[w][idx[w]].npi)
       THEN /\ store' = OnDuplicate(store, providers[w][idx[w]])
            /\ pc' = [pc EXCEPT ![w] = LoadAdvancePc(w)]
            /\ idx' = [idx EXCEPT ![w] = @ + 1]
            /\ status' = [status EXCEPT ![w] =
                            IF LoadAdvancePc(w) = "done" THEN "success" ELSE @]
       ELSE /\ pc' = [pc EXCEPT ![w] = "load_insert"]
            /\ UNCHANGED <<store, idx, status>>
    /\ UNCHANGED <<raw, specialty, returned_count, sideVars, lookups, op, location, providers, leads_loaded,
                   with_email_count, unvisited_leads, apollo_enriched,
                   enriched_count, ready_leads, sent, store0, searched0, rerun, selectedDone, calls>>

\* lines 66-129: build the document, insert it, count it
LoadInsert(w) ==
    /\ pc[w] = "load_insert"
    /\ LET provider == providers[w][idx[w]]
       IN  /\ store' = InsertLead(store, provider, location[w], specialty[w])
           /\ lookups' = Append(lookups, 0)
           /\ leads_loaded' = [leads_loaded EXCEPT ![w] = @ + 1]
           /\ with_email_count' = [with_email_count EXCEPT ![w] =
                                     IF LoadHasEmail(provider) THEN @ + 1 ELSE @]
    /\ pc' = [pc EXCEPT ![w] = LoadAdvancePc(w)]
    /\ idx' = [idx EXCEPT ![w] = @ + 1]
    /\ status' = [status EXCEPT ![w] = IF LoadAdvancePc(w) = "done" THEN "success" ELSE @]
    /\ UNCHANGED <<raw, specialty, returned_count, sideVars, op, location, providers, unvisited_leads, apollo_enriched,
                   enriched_count, ready_leads, sent, store0, searched0, rerun, selectedDone, calls>>

\* lines 122-123 raise (the document fails validation, or the insert fails in
\* the database): lines 147-149 re-raise, the loop is abandoned and the
\* router answers 500
LoadInsertFails(w) ==
    /\ pc[w] = "load_insert"
    /\ pc' = [pc EXCEPT ![w] = "raised"]
    /\ status' = [status EXCEPT ![w] = "error"]
    /\ UNCHANGED <<raw, specialty, returned_count, sideVars, store, lookups, op, location, providers, idx, leads_loaded,
                   with_email_count, unvisited_leads, apollo_enriched, enriched_count,
                   ready_leads, sent, store0, searched0, rerun, selectedDone, calls>>

\* ==== recruit: recruit_leads ==============================================

\* a document as the handler holds it after the read; id is its _id
AsRead(st, k) == [id |-> k, npi |-> st[k].npi, email |-> st[k].email]

RECURSIVE ReadAll(_, _)
ReadAll(st, ids) ==
    IF ids = <<>> THEN <<>> ELSE <<AsRead(st, Head(ids))>> \o ReadAll(st, Tail(ids))

\* lines 173-177: find({city, specialty, visited: False}).limit(10)
Unvisited(st, loc, spec) ==
    ReadAll(st, Limit(InOrder({k \in 1..Len(st) :
                                  st[k].city = loc /\ st[k].specialty = spec /\ ~st[k].visited},
                              1, Len(st)), RecruitLimit))

\* the ready query without the location and specialty keys
Ready_Anywhere(st, loc, spec) ==
    Limit(InOrder({k \in 1..Len(st) : st[k].has_email /\ ~st[k].is_emailed},
                  1, Len(st)), ReadyLimit)

\* lines 184-189 and 283-288: find({city, specialty, has_email, is_emailed: False}).limit(5)
Ready(st, loc, spec) ==
    Limit(InOrder({k \in 1..Len(st) :
                      /\ st[k].city = loc /\ st[k].specialty = spec
                      /\ st[k].has_email /\ ~st[k].is_emailed},
                  1, Len(st)), ReadyLimit)

\* the status is set for every searched lead, match or not
UpdateFields_StatusAlways(doc, lead, apollo_email) ==
    LET base == [doc EXCEPT !.visited = TRUE, !.apollo_searched = TRUE,
                            !.enrichment_status = "apollo_enriched"]
    IN  IF Truthy(apollo_email)
        THEN IF ~Truthy(lead.email)
             THEN [base EXCEPT !.apollo_email = apollo_email,
                               !.email = apollo_email, !.has_email = TRUE]
             ELSE [base EXCEPT !.apollo_email = apollo_email]
        ELSE base

\* visited set only when the Match Engine found an email
UpdateFields_VisitedOnMatch(doc, lead, apollo_email) ==
    IF Truthy(apollo_email)
    THEN LET enriched == [doc EXCEPT !.visited = TRUE, !.apollo_searched = TRUE,
                                     !.apollo_email = apollo_email,
                                     !.enrichment_status = "apollo_enriched"]
         IN  IF ~Truthy(lead.email)
             THEN [enriched EXCEPT !.email = apollo_email, !.has_email = TRUE]
             ELSE enriched
    ELSE [doc EXCEPT !.apollo_searched = TRUE]

\* the Match Engine's email always becomes the primary email
UpdateFields_Overwrite(doc, lead, apollo_email) ==
    LET base == [doc EXCEPT !.visited = TRUE, !.apollo_searched = TRUE]
    IN  IF Truthy(apollo_email)
        THEN [base EXCEPT !.apollo_email = apollo_email,
                          !.enrichment_status = "apollo_enriched",
                          !.email = apollo_email, !.has_email = TRUE]
        ELSE base

\* lines 249-275: the $set applied to the stored document, computed from the
\* lead as read (lead.email) and the Match Engine's answer for it
UpdateFields(doc, lead, apollo_email) ==
    LET base == [doc EXCEPT !.visited = TRUE, !.apollo_searched = TRUE]
    IN  IF Truthy(apollo_email)
        THEN LET enriched == [base EXCEPT !.apollo_email = apollo_email,
                                           !.enrichment_status = "apollo_enriched"]
             IN  IF ~Truthy(lead.email)
                 THEN [enriched EXCEPT !.email = apollo_email, !.has_email = TRUE]
                 ELSE enriched
        ELSE base

\* line 277: Lead.find_one({"npi": lead.npi}).update({"$set": update_fields})
UpdateOne(st, lead, apollo_email) ==
    LET k == FindOneByNpi(st, lead.npi)
    IN  IF k = 0 THEN st ELSE [st EXCEPT ![k] = UpdateFields(st[k], lead, apollo_email)]

\* lines 171-177: select the batch
RecruitSelect(w) ==
    /\ pc[w] = "idle"
    /\ \E loc \in Cities, spec \in Specialties :
        /\ location' = [location EXCEPT ![w] = loc]
        /\ specialty' = [specialty EXCEPT ![w] = spec]
        /\ unvisited_leads' = [unvisited_leads EXCEPT ![w] = Unvisited(store, loc, spec)]
        /\ pc' = [pc EXCEPT ![w] =
                    IF Unvisited(store, loc, spec) = <<>> THEN "recruit_ready" ELSE "recruit_apollo"]
    /\ op' = [op EXCEPT ![w] = "recruit"]
    /\ searched0' = [searched0 EXCEPT ![w] = SearchedCount(store)]
    /\ calls < MaxCalls
    /\ calls' = calls + 1
    /\ UNCHANGED <<raw, returned_count, sideVars, store, lookups, providers, idx, leads_loaded, with_email_count,
                   apollo_enriched, enriched_count, ready_leads, status, sent,
                   store0, rerun, selectedDone>>

RECURSIVE BumpAll(_, _)
BumpAll(lk, leads) ==
    IF leads = <<>> THEN lk
    ELSE BumpAll([lk EXCEPT ![Head(leads).id] = @ + 1], Tail(leads))

\* lines 208-238 with ml_service.call_apollo lines 141-233: every lead of the
\* batch is handed to enrich_multiple_people; each lookup finds an email or not
CallApollo(w) ==
    /\ pc[w] = "recruit_apollo"
    /\ \E res \in [1..Len(unvisited_leads[w]) -> {None, ApolloEmail}] :
        apollo_enriched' = [apollo_enriched EXCEPT ![w] = res]
    /\ lookups' = BumpAll(lookups, unvisited_leads[w])
    /\ sent' = [sent EXCEPT ![w] = Len(unvisited_leads[w])]
    /\ pc' = [pc EXCEPT ![w] = "recruit_update"]
    /\ idx' = [idx EXCEPT ![w] = 1]
    /\ UNCHANGED <<raw, specialty, returned_count, sideVars, store, op, location, providers, leads_loaded, with_email_count,
                   unvisited_leads, enriched_count, ready_leads, status, store0,
                   searched0, rerun, selectedDone, calls>>

\* ml_service.call_apollo lines 133-139: no Apollo client configured; the
\* leads come back as passed in, without an apollo_email
CallApolloNotConfigured(w) ==
    /\ pc[w] = "recruit_apollo"
    /\ apollo_enriched' = [apollo_enriched EXCEPT ![w] =
                             [k \in 1..Len(unvisited_leads[w]) |-> None]]
    /\ pc' = [pc EXCEPT ![w] = "recruit_update"]
    /\ idx' = [idx EXCEPT ![w] = 1]
    /\ UNCHANGED <<raw, specialty, returned_count, sideVars, store, lookups, op, location, providers, leads_loaded,
                   with_email_count, unvisited_leads, enriched_count, ready_leads,
                   status, sent, store0, searched0, rerun, selectedDone, calls>>

\* lines 246-277: one iteration of the update loop
RecruitUpdate(w) ==
    /\ pc[w] = "recruit_update"
    /\ LET lead == unvisited_leads[w][idx[w]]
           apollo_email == apollo_enriched[w][idx[w]]
       IN  /\ store' = UpdateOne(store, lead, apollo_email)
           /\ enriched_count' = [enriched_count EXCEPT ![w] =
                                   IF Truthy(apollo_email) THEN @ + 1 ELSE @]
    /\ pc' = [pc EXCEPT ![w] =
                IF idx[w] = Len(unvisited_leads[w]) THEN "recruit_ready" ELSE "recruit_update"]
    /\ idx' = [idx EXCEPT ![w] = @ + 1]
    /\ UNCHANGED <<raw, specialty, returned_count, sideVars, lookups, op, location, providers, leads_loaded, with_email_count,
                   unvisited_leads, apollo_enriched, ready_leads, status, sent,
                   store0, searched0, rerun, selectedDone, calls>>

\* lines 184-204 and 283-311: query the ready leads and return
RecruitReady(w) ==
    /\ pc[w] = "recruit_ready"
    /\ ready_leads' = [ready_leads EXCEPT ![w] = Ready(store, location[w], specialty[w])]
    /\ returned_count' = [returned_count EXCEPT ![w] = Len(Ready(store, location[w], specialty[w]))]
    /\ status' = [status EXCEPT ![w] = "success"]
    /\ pc' = [pc EXCEPT ![w] = "done"]
    /\ selectedDone' = selectedDone \cup {unvisited_leads[w][k].id : k \in 1..Len(unvisited_leads[w])}
    /\ UNCHANGED <<raw, specialty, sideVars, store, lookups, op, location, providers, idx, leads_loaded,
                   with_email_count, unvisited_leads, apollo_enriched, enriched_count,
                   sent, store0, searched0, rerun, calls>>

\* ==== manual lead creation: create_bulk_leads ==============================

\* lines 401-418 for one LeadCreate: a lead with that email exists, or an
\* email was already sent to the address -> skipped; otherwise
\* Lead(**data.dict()) lacks the required npi and state and raises
CreateBulkLeads(w) ==
    /\ pc[w] = "idle"
    /\ \E e \in {DirectAddress, ApolloEmail}, alreadySent \in BOOLEAN :
        status' = [status EXCEPT ![w] =
                     IF (\E k \in 1..Len(store) : store[k].email = e) \/ alreadySent
                     THEN "success" ELSE "error"]
    /\ op' = [op EXCEPT ![w] = "create"]
    /\ pc' = [pc EXCEPT ![w] = "done"]
    /\ calls < MaxCalls
    /\ calls' = calls + 1
    /\ UNCHANGED <<raw, specialty, returned_count, sideVars, store, lookups, location, providers, idx, leads_loaded,
                   with_email_count, unvisited_leads, apollo_enriched, enriched_count,
                   ready_leads, sent, store0, searched0, rerun, selectedDone>>

\* ==== the response leaves the handler (api/leads.py) =======================
Return(w) ==
    /\ pc[w] \in {"done", "raised"}
    /\ raw' = [raw EXCEPT ![w] = NoAnswer]
    /\ pc' = [pc EXCEPT ![w] = "idle"]
    /\ op' = [op EXCEPT ![w] = "none"]
    /\ location' = [location EXCEPT ![w] = ""]
    /\ specialty' = [specialty EXCEPT ![w] = ""]
    /\ providers' = [providers EXCEPT ![w] = <<>>]
    /\ idx' = [idx EXCEPT ![w] = 0]
    /\ leads_loaded' = [leads_loaded EXCEPT ![w] = 0]
    /\ with_email_count' = [with_email_count EXCEPT ![w] = 0]
    /\ unvisited_leads' = [unvisited_leads EXCEPT ![w] = <<>>]
    /\ apollo_enriched' = [apollo_enriched EXCEPT ![w] = <<>>]
    /\ enriched_count' = [enriched_count EXCEPT ![w] = 0]
    /\ ready_leads' = [ready_leads EXCEPT ![w] = <<>>]
    /\ returned_count' = [returned_count EXCEPT ![w] = 0]
    /\ status' = [status EXCEPT ![w] = ""]
    /\ sent' = [sent EXCEPT ![w] = 0]
    /\ store0' = [store0 EXCEPT ![w] = <<>>]
    /\ searched0' = [searched0 EXCEPT ![w] = 0]
    /\ rerun' = [rerun EXCEPT ![w] = FALSE]
    /\ UNCHANGED <<sideVars, store, lookups, selectedDone, calls>>

\* ==== specifications =======================================================
Step(w) ==
    \/ LoadFetch(w)
    \/ LoadFetchAgain(w)
    \/ LoadCheck(w)
    \/ LoadInsert(w)
    \/ LoadInsertFails(w)
    \/ RecruitSelect(w)
    \/ CallApollo(w)
    \/ CallApolloNotConfigured(w)
    \/ RecruitUpdate(w)
    \/ RecruitReady(w)
    \/ CreateBulkLeads(w)
    \/ Return(w)

\* requests of different workers overlap, switching at the await points
Next == \E w \in Workers : Step(w)
Spec == Init /\ [][Next]_vars

\* one request at a time
NextSeq == Step("w1")
SpecSeq == Init /\ [][NextSeq]_vars

\* ==== Match Engine: ml_service.call_apollo, apollo_client ==================
\* One call of call_apollo for a batch of persons.  enrich_multiple_people
\* starts one lookup per person and gathers them; the lookups share no state,
\* so the model runs them in index order.  Relevance scores are in tenths.

MEDICAL_THRESHOLD == 6               \* 0.6

\* one element of enrichment_data: the fields the lookup reads
Person(org, city, state) == [organization_name |-> org, city |-> city, state |-> state]
Persons ==
    {Person(None, "Novi", "MI"),
     Person("Private Practice", None, "MI"),
     Person(None, "Novi", ""),
     Person(None, None, None),
     Person("Novi Clinic", "Novi", "MI")}
Batches == SeqsUpTo(Persons, MaxBatch) \ {<<>>}

\* str.lower().strip() on the organization names of the model
LowerStrip(s) ==
    CASE s = "Private Practice" -> "private practice"
      [] s = "Novi Clinic" -> "novi clinic"
      [] OTHER -> s

\* enrich_person_by_name lines 270-282
generic_org_names ==
    {"private practice", "individual practice", "no nppes org data", "not available", "n/a", ""}

EffectiveOrg(org) ==
    IF Truthy(org) /\ LowerStrip(org) \in generic_org_names THEN None ELSE org

\* the state-wide strategy is tried before the city one
Strategies_StateFirst(city, state) ==
    (IF Truthy(state) THEN <<"state_only">> ELSE <<>>)
    \o (IF Truthy(city) /\ Truthy(state) THEN <<"city_state">> ELSE <<>>)
    \o <<"no_location">>

\* every strategy is tried, also the ones whose qualifier is missing
Strategies_All(city, state) == <<"city_state", "state_only", "no_location">>

\* _hierarchical_search lines 184-203: the strategies in the order tried; a
\* strategy whose qualifier is missing (None or "") is left out
Strategies(city, state) ==
    (IF Truthy(city) /\ Truthy(state) THEN <<"city_state">> ELSE <<>>)
    \o (IF Truthy(state) THEN <<"state_only">> ELSE <<>>)
    \o <<"no_location">>

\* One person of the "people" array of a search answer.  title stands for the
\* branch of _calculate_healthcare_score it takes: a medical keyword, a care
\* title, a professor title, no keyword, or JSON null
Profile(title, org_health, has_email, has_id) ==
    [title |-> title, org_health |-> org_health, has_email |-> has_email, has_id |-> has_id]
Profiles ==
    {Profile("physician", FALSE, FALSE, TRUE),
     Profile("health care aide", FALSE, FALSE, TRUE),
     Profile("manager", FALSE, TRUE, TRUE),
     Profile(None, TRUE, TRUE, TRUE),
     Profile("physician", TRUE, FALSE, FALSE)}

\* what one POST to mixed_people/api_search produces: a transport or HTTP
\* error, or a body with the people found
SearchAnswers ==
    {[ok |-> FALSE, people |-> <<>>]}
    \cup {[ok |-> TRUE, people |-> ps] : ps \in SeqsUpTo(Profiles, MaxFound)}

\* what one POST to people/match produces
MatchAnswers == {"error", "no_person", "no_email", "email"}

\* lines 312-363 and 453-494: a result only for a person with an email
EmailOf(answer) == IF answer = "email" THEN ApolloEmail ELSE None

\* _calculate_healthcare_score lines 121-152, in tenths
TitleScore(title) ==
    CASE title = "physician" -> 6
      [] title = "health care aide" -> 5
      [] title = "professor of medicine" -> 3
      [] OTHER -> 0

CalculateHealthcareScore(p) ==
    Min(TitleScore(p.title) + (IF p.org_health THEN 3 ELSE 0)
                            + (IF p.has_email THEN 2 ELSE 0), 10)

\* person.get("title", "").lower() raises for a null title
ScoringRaises(ps) == \E k \in 1..Len(ps) : ps[k].title = None

\* lines 219-220: the candidate as held after scoring; id is the candidate's
\* position in the answer, 0 when the entry carries no "id" key
Scored(ps) ==
    [k \in 1..Len(ps) |->
        [id |-> IF ps[k].has_id THEN k ELSE 0,
         title |-> ps[k].title,
         _score |-> CalculateHealthcareScore(ps[k])]]

\* line 222: people.sort(key=_score, reverse=True); the sort is stable
InsertByScore(sorted, p) ==
    LET k == Cardinality({j \in 1..Len(sorted) : sorted[j]._score >= p._score})
    IN  SubSeq(sorted, 1, k) \o <<p>> \o SubSeq(sorted, k + 1, Len(sorted))

RECURSIVE SortByScore(_)
SortByScore(ps) ==
    IF ps = <<>> THEN <<>>
    ELSE InsertByScore(SortByScore(SubSeq(ps, 1, Len(ps) - 1)), ps[Len(ps)])

\* lines 205-228: how one strategy ends.  raise_for_status or the transport
\* raises; the answer holds nobody; scoring a candidate raises (all caught at
\* line 226); or the scored and sorted candidates are returned
StrategyOutcome(answer) ==
    IF ~answer.ok THEN "error"
    ELSE IF answer.people = <<>> THEN "empty"
    ELSE IF ScoringRaises(answer.people) THEN "scoring_error"
    ELSE "found"

\* the gate lets every candidate through
PassesGate_Always(score) == TRUE

\* _search_person_by_name line 413: if score < MEDICAL_THRESHOLD: return None
PassesGate(score) == ~(score < MEDICAL_THRESHOLD)

\* call_apollo lines 141-177: the finder is configured; the first lookup starts
CallApolloStart ==
    /\ epc = "idle"
    /\ \E b \in Batches : batch' = b
    /\ cur' = 1
    /\ epc' = "task"
    /\ UNCHANGED <<notEngine, strategies, searches, outcomes, people, strategy_used,
                   detail_ids, result, results, enriched_leads>>

\* call_apollo lines 133-139: no finder; the leads come back as passed in
CallApolloUnconfigured ==
    /\ epc = "idle"
    /\ \E b \in Batches :
        /\ batch' = b
        /\ enriched_leads' = [k \in 1..Len(b) |-> None]
    /\ epc' = "unconfigured"
    /\ UNCHANGED <<notEngine, cur, strategies, searches, outcomes, people, strategy_used,
                   detail_ids, result, results>>

\* enrich_person_by_name lines 270-291: a missing or generic organization
\* takes the name-only path, any other the people/match endpoint
EnrichPersonByName ==
    /\ epc = "task"
    /\ LET person == batch[cur]
       IN  IF ~Truthy(EffectiveOrg(person.organization_name))
           THEN /\ strategies' = Strategies(person.city, person.state)
                /\ epc' = "search"
           ELSE /\ strategies' = <<>>
                /\ epc' = "match"
    /\ searches' = <<>>
    /\ outcomes' = <<>>
    /\ people' = <<>>
    /\ strategy_used' = ""
    /\ detail_ids' = <<>>
    /\ result' = None
    /\ UNCHANGED <<notEngine, batch, cur, results, enriched_leads>>

\* _hierarchical_search lines 205-231: one strategy is requested.  People
\* found and scored end the search; an error, an empty answer or an exception
\* while scoring moves on to the next strategy; after the last one the search
\* returns [] and _search_person_by_name lines 401-403 return None
HierarchicalSearch ==
    /\ epc = "search"
    /\ searches' = Append(searches, Head(strategies))
    /\ strategies' = Tail(strategies)
    /\ \E answer \in SearchAnswers :
        /\ outcomes' = Append(outcomes, StrategyOutcome(answer))
        /\ IF StrategyOutcome(answer) = "found"
           THEN /\ people' = SortByScore(Scored(answer.people))
                /\ strategy_used' = Head(strategies)
                /\ epc' = "gate"
                /\ UNCHANGED result
           ELSE IF Tail(strategies) = <<>>
                THEN /\ people' = <<>>
                     /\ strategy_used' = "failed"
                     /\ result' = None
                     /\ epc' = "finished"
                ELSE UNCHANGED <<people, strategy_used, result, epc>>
    /\ UNCHANGED <<notEngine, batch, cur, detail_ids, results, enriched_leads>>

\* _search_person_by_name lines 405-431: the best match is the first of the
\* sorted list; below the threshold the lookup returns None; best_match["id"]
\* raises KeyError for a candidate without an id, outside every try block
RelevanceGate ==
    /\ epc = "gate"
    /\ LET best_match == people[1]
       IN  IF ~PassesGate(best_match._score)
           THEN /\ result' = None
                /\ epc' = "finished"
           ELSE /\ epc' = IF best_match.id = 0 THEN "raised" ELSE "detail"
                /\ UNCHANGED result
    /\ UNCHANGED <<notEngine, batch, cur, strategies, searches, outcomes, people,
                   strategy_used, detail_ids, results, enriched_leads>>

\* enrich_person_by_id lines 443-498: the detail lookup of the best match
EnrichPersonById ==
    /\ epc = "detail"
    /\ detail_ids' = Append(detail_ids, people[1].id)
    /\ \E answer \in MatchAnswers : result' = EmailOf(answer)
    /\ epc' = "finished"
    /\ UNCHANGED <<notEngine, batch, cur, strategies, searches, outcomes, people,
                   strategy_used, results, enriched_leads>>

\* enrich_person_by_name lines 291-367: lookup by name and organization
PeopleMatch ==
    /\ epc = "match"
    /\ \E answer \in MatchAnswers : result' = EmailOf(answer)
    /\ epc' = "finished"
    /\ UNCHANGED <<notEngine, batch, cur, strategies, searches, outcomes, people,
                   strategy_used, detail_ids, results, enriched_leads>>

\* enrich_multiple_people line 530: the lookup's result takes its place in
\* the gathered list; after the last one gather returns
TaskDone ==
    /\ epc = "finished"
    /\ results' = Append(results, result)
    /\ IF cur = Len(batch)
       THEN /\ epc' = "merge"
            /\ UNCHANGED cur
       ELSE /\ epc' = "task"
            /\ cur' = cur + 1
    /\ UNCHANGED <<notEngine, batch, strategies, searches, outcomes, people,
                   strategy_used, detail_ids, result, enriched_leads>>

\* call_apollo lines 179-233: results merged back into the leads by index
MergeResults ==
    /\ epc = "merge"
    /\ enriched_leads' = [k \in 1..Len(batch) |-> results[k]]
    /\ epc' = "returned"
    /\ UNCHANGED <<notEngine, batch, cur, strategies, searches, outcomes, people,
                   strategy_used, detail_ids, result, results>>

\* enrich_multiple_people line 530 and call_apollo lines 235-242: gather
\* re-raises the lookup's exception, the except clause answers with the leads
\* as passed in
GatherRaises ==
    /\ epc = "raised"
    /\ enriched_leads' = [k \in 1..Len(batch) |-> None]
    /\ epc' = "returned"
    /\ UNCHANGED <<notEngine, batch, cur, strategies, searches, outcomes, people,
                   strategy_used, detail_ids, result, results>>

\* call_apollo's answer goes back to the caller
EngineReturn ==
    /\ epc \in {"returned", "unconfigured"}
    /\ batch' = <<>>
    /\ cur' = 0
    /\ epc' = "idle"
    /\ strategies' = <<>>
    /\ searches' = <<>>
    /\ outcomes' = <<>>
    /\ people' = <<>>
    /\ strategy_used' = ""
    /\ detail_ids' = <<>>
    /\ result' = None
    /\ results' = <<>>
    /\ enriched_leads' = <<>>
    /\ UNCHANGED <<notEngine>>

NextEngine ==
    \/ CallApolloStart
    \/ CallApolloUnconfigured
    \/ EnrichPersonByName
    \/ HierarchicalSearch
    \/ RelevanceGate
    \/ EnrichPersonById
    \/ PeopleMatch
    \/ TaskDone
    \/ MergeResults
    \/ GatherRaises
    \/ EngineReturn

\* one call of the Match Engine after another
SpecEngine == Init /\ [][NextEngine]_vars

\* ==== authentication: api/auth.py, core/security.py ========================
\* One user of the allowed domain.  A token is its type, its iat claim (the
\* second it was issued in) and, for the properties, its epoch: the number of
\* logouts completed when the login it stems from took place.  The tokens of
\* the model do not expire before MaxTime.

Token(type, iat, epoch) == [type |-> type, iat |-> iat, epoch |-> epoch]

\* the server's local time zone is UTC
UtcOffset == 0

\* security.py line 69: int(user.last_logout.timestamp()); last_logout is a
\* naive utcnow() value, which timestamp() reads as local time
LogoutTs(t) == t - UtcOffset

\* security.py lines 47-79: the token is an access token and its iat is not
\* before the second of the last logout
GetCurrentUser(token) ==
    /\ token.type = "access"
    /\ ~(last_logout # NoTime /\ token.iat < LogoutTs(last_logout))

\* auth.py lines 72-88: any well-formed refresh token is accepted
RefreshAccepts(token) == token.type = "refresh"

Tick ==
    /\ now < MaxTime
    /\ now' = now + 1
    /\ UNCHANGED <<notAuth, last_logout, logouts, tokens, auth_calls, authed>>

\* auth.py lines 15-70: google_token_exchange issues an access and a refresh token
Login ==
    /\ auth_calls < MaxCalls
    /\ auth_calls' = auth_calls + 1
    /\ tokens' = tokens \cup {Token("access", now, logouts), Token("refresh", now, logouts)}
    /\ UNCHANGED <<notAuth, now, last_logout, logouts, authed>>

\* auth.py lines 72-88: a refresh token is exchanged for a new access token
RefreshAccessToken ==
    /\ auth_calls < MaxCalls
    /\ auth_calls' = auth_calls + 1
    /\ \E token \in tokens :
        IF RefreshAccepts(token)
        THEN tokens' = tokens \cup {Token("access", now, token.epoch)}
        ELSE UNCHANGED tokens
    /\ UNCHANGED <<notAuth, now, last_logout, logouts, authed>>

\* auth.py lines 100-103: a request presents a token to an endpoint guarded by
\* get_current_user
GetMe ==
    /\ \E token \in tokens :
        authed' = [token |-> token, ok |-> GetCurrentUser(token), stale |-> token.epoch < logouts]
    /\ UNCHANGED <<notAuth, now, last_logout, logouts, tokens, auth_calls>>

\* auth.py lines 90-98: logout, itself guarded by get_current_user
Logout ==
    /\ auth_calls < MaxCalls
    /\ auth_calls' = auth_calls + 1
    /\ \E token \in tokens :
        /\ authed' = [token |-> token, ok |-> GetCurrentUser(token), stale |-> token.epoch < logouts]
        /\ IF GetCurrentUser(token)
           THEN /\ last_logout' = now
                /\ logouts' = logouts + 1
           ELSE UNCHANGED <<last_logout, logouts>>
    /\ UNCHANGED <<notAuth, now, tokens>>

NextAuth ==
    \/ Tick
    \/ Login
    \/ RefreshAccessToken
    \/ GetMe
    \/ Logout

SpecAuth == Init /\ [][NextAuth]_vars

\* ==== size estimation: core/emr_estimator.py ===============================
\* Strings are sequences of characters, so that "keyword in org_lower" is the
\* substring test of the code.  Confidence is in hundredths.

UpperCase ==
    <<"A", "B", "C", "D", "E", "F", "G", "H", "I", "J", "K", "L", "M", "N", "O", "P", "Q", "R", "S", "T", "U", "V", "W", "X", "Y", "Z">>
LowerCase ==
    <<"a", "b", "c", "d", "e", "f", "g", "h", "i", "j", "k", "l", "m", "n", "o", "p", "q", "r", "s", "t", "u", "v", "w", "x", "y", "z">>

\* str.lower() on one character
ToLower(c) ==
    IF \E i \in 1..26 : UpperCase[i] = c
    THEN LowerCase[CHOOSE i \in 1..26 : UpperCase[i] = c]
    ELSE c
Lower(str) == [i \in 1..Len(str) |-> ToLower(str[i])]

\* keyword in str
Contains(str, keyword) ==
    \E i \in 0..(Len(str) - Len(keyword)) :
        \A j \in 1..Len(keyword) : str[i + j] = keyword[j]

\* len(str.split()): the words are the maximal runs without a space
WordCount(str) ==
    Cardinality({i \in 1..Len(str) : str[i] # " " /\ (i = 1 \/ str[i - 1] = " ")})

\* SIZE_KEYWORDS lines 131-148
LargeKeywords ==
    <<<<"h", "o", "s", "p", "i", "t", "a", "l">>,
      <<"m", "e", "d", "i", "c", "a", "l", " ", "c", "e", "n", "t", "e", "r">>,
      <<"h", "e", "a", "l", "t", "h", " ", "s", "y", "s", "t", "e", "m">>,
      <<"h", "e", "a", "l", "t", "h", " ", "n", "e", "t", "w", "o", "r", "k">>,
      <<"h", "e", "a", "l", "t", "h", "c", "a", "r", "e", " ", "s", "y", "s", "t", "e", "m">>,
      <<"u", "n", "i", "v", "e", "r", "s", "i", "t", "y">>,
      <<"r", "e", "g", "i", "o", "n", "a", "l">>,
      <<"m", "e", "m", "o", "r", "i", "a", "l">>,
      <<"m", "e", "d", "i", "c", "a", "l", " ", "g", "r", "o", "u", "p">>,
      <<"m", "u", "l", "t", "i", "s", "p", "e", "c", "i", "a", "l", "t", "y">>>>
MediumKeywords ==
    <<<<"g", "r", "o", "u", "p">>,
      <<"a", "s", "s", "o", "c", "i", "a", "t", "e", "s">>,
      <<"p", "a", "r", "t", "n", "e", "r", "s">>,
      <<"p", "h", "y", "s", "i", "c", "i", "a", "n", "s">>,
      <<"s", "p", "e", "c", "i", "a", "l", "i", "s", "t", "s">>,
      <<"c", "l", "i", "n", "i", "c", " ", "g", "r", "o", "u", "p">>,
      <<"m", "e", "d", "i", "c", "a", "l", " ", "a", "s", "s", "o", "c", "i", "a", "t", "e", "s">>,
      <<"h", "e", "a", "l", "t", "h", " ", "p", "a", "r", "t", "n", "e", "r", "s">>>>
SmallKeywords ==
    <<<<"c", "l", "i", "n", "i", "c">>,
      <<"p", "r", "a", "c", "t", "i", "c", "e">>,
      <<"f", "a", "m", "i", "l", "y">>,
      <<"o", "f", "f", "i", "c", "e">>,
      <<"c", "a", "r", "e", " ", "c", "e", "n", "t", "e", "r">>,
      <<"w", "e", "l", "l", "n", "e", "s", "s">>,
      <<"h", "e", "a", "l", "t", "h", " ", "c", "e", "n", "t", "e", "r">>>>
SoloKeywords ==
    <<<<"m", "d">>,
      <<"d", "o">>,
      <<"p", "h", "y", "s", "i", "c", "i", "a", "n">>,
      <<"d", "o", "c", "t", "o", "r">>>>

\* the Medium keywords are scanned before the Large ones
SIZE_KEYWORDS_MediumFirst ==
    <<[size |-> "Medium", keywords |-> MediumKeywords],
      [size |-> "Large", keywords |-> LargeKeywords],
      [size |-> "Small", keywords |-> SmallKeywords],
      [size |-> "Solo", keywords |-> SoloKeywords]>>

\* the dict in its insertion order, which the for loop of line 173 follows
SIZE_KEYWORDS ==
    <<[size |-> "Large", keywords |-> LargeKeywords],
      [size |-> "Medium", keywords |-> MediumKeywords],
      [size |-> "Small", keywords |-> SmallKeywords],
      [size |-> "Solo", keywords |-> SoloKeywords]>>

\* line 185: the titles of a single-physician practice
SoloTitles ==
    <<<<"d", "r", ".">>,
      <<"m", "d">>,
      <<"d", "o">>,
      <<"m", ".", "d", ".">>,
      <<"d", ".", "o", ".">>>>

\* the words the organization names of the model are made of
Words ==
    {<<"S", "p", "r", "i", "n", "g", "f", "i", "e", "l", "d">>,
     <<"M", "e", "d", "i", "c", "a", "l">>,
     <<"G", "r", "o", "u", "p">>,
     <<"C", "l", "i", "n", "i", "c">>,
     <<"D", "r", ".">>,
     <<"S", "m", "i", "t", "h">>}

RECURSIVE JoinWords(_)
JoinWords(ws) ==
    IF Len(ws) = 1 THEN ws[1] ELSE ws[1] \o <<" ">> \o JoinWords(Tail(ws))

OrganizationNames == {JoinWords(ws) : ws \in SeqsUpTo(Words, MaxWords) \ {<<>>}}

SpringfieldMedicalGroup ==
    <<"S", "p", "r", "i", "n", "g", "f", "i", "e", "l", "d", " ", "M", "e", "d", "i", "c", "a", "l", " ", "G", "r", "o", "u", "p">>

\* lines 173-175: position of the first keyword of the list contained in the
\* name, 0 if none
FirstKeyword(org_lower, keywords) ==
    LET hits == {k \in 1..Len(keywords) : Contains(org_lower, keywords[k])}
    IN  IF hits = {} THEN 0 ELSE CHOOSE k \in hits : \A h \in hits : k <= h

\* lines 173-181: the first size, in the order of the dict, one of whose
\* keywords is contained in the name; 0 if none
FirstSize(org_lower) ==
    LET hits == {n \in 1..Len(SIZE_KEYWORDS) :
                    FirstKeyword(org_lower, SIZE_KEYWORDS[n].keywords) # 0}
    IN  IF hits = {} THEN 0 ELSE CHOOSE n \in hits : \A h \in hits : n <= h

\* estimate_clinic_size lines 159-197
EstimateClinicSizeOf(organization_name) ==
    LET org_lower == Lower(organization_name)
        n == FirstSize(org_lower)
    IN  IF n # 0
        THEN LET size == SIZE_KEYWORDS[n].size
                 keywords == SIZE_KEYWORDS[n].keywords
             IN  [name |-> organization_name,
                  clinic_size |-> size,
                  confidence |-> IF size \in {"Large", "Medium"} THEN 75 ELSE 65,
                  keyword |-> keywords[FirstKeyword(org_lower, keywords)]]
        ELSE IF /\ WordCount(organization_name) <= 4
                /\ \E t \in 1..Len(SoloTitles) : Contains(org_lower, SoloTitles[t])
             THEN [name |-> organization_name, clinic_size |-> "Solo",
                   confidence |-> 60, keyword |-> <<>>]
             ELSE [name |-> organization_name, clinic_size |-> "Small",
                   confidence |-> 45, keyword |-> <<>>]

\* one call of estimate_clinic_size
EstimateClinicSize ==
    /\ est = NoEstimate
    /\ \E name \in OrganizationNames : est' = EstimateClinicSizeOf(name)
    /\ UNCHANGED <<notEstimator>>

\* the caller has taken the estimate
EstimateTaken ==
    /\ est # NoEstimate
    /\ est' = NoEstimate
    /\ UNCHANGED <<notEstimator>>

NextEstimator == EstimateClinicSize \/ EstimateTaken

SpecEstimator == Init /\ [][NextEstimator]_vars

\* ==== merge for the database: lead_service._prepare_lead_for_db ============
\* The function has no caller in the handlers; it is modelled on its own.

RegistryEmail == "reg@npi"           \* an email in the registry's own data

\* the keys of scout_lead the merge logic reads
ScoutLeads ==
    [email : {None, "", RegistryEmail},
     direct_messaging_address : {None, "", DirectAddress},
     phone : {None, "555-0100"},
     website : {None, "clinic.example"}]

\* apollo_data: absent (None, the default), or the enrichment fields
NoApolloData ==
    [given |-> FALSE, apollo_email |-> None, apollo_phone_numbers |-> <<>>,
     apollo_website |-> None]
ApolloDatas ==
    {NoApolloData} \cup
    [given : {TRUE},
     apollo_email : {None, ApolloEmail},
     apollo_phone_numbers : {<<>>, <<"555-0199">>},
     apollo_website : {None, "apollo.example"}]

\* lines 348-363: email from the registry data
ScoutEmail(scout_lead) ==
    IF Truthy(scout_lead.email) THEN scout_lead.email
    ELSE IF Truthy(scout_lead.direct_messaging_address)
         THEN scout_lead.direct_messaging_address
         ELSE None

\* lines 322-396
PrepareLeadForDbOf(scout_lead, apollo_data) ==
    LET base == [email |-> ScoutEmail(scout_lead),
                 has_email |-> Truthy(ScoutEmail(scout_lead)),
                 enrichment_status |-> "scout_only",
                 apollo_email |-> None,
                 apollo_searched |-> FALSE,
                 phone |-> scout_lead.phone,
                 website |-> scout_lead.website]
    IN  IF ~apollo_data.given THEN base
        ELSE LET apollo_email == apollo_data.apollo_email
                 assign == ~Truthy(scout_lead.email) /\ Truthy(apollo_email)
             IN  [email |-> IF assign THEN apollo_email ELSE base.email,
                  has_email |-> IF assign THEN TRUE ELSE base.has_email,
                  enrichment_status |-> "apollo_enriched",
                  apollo_email |-> apollo_email,
                  apollo_searched |-> TRUE,
                  phone |-> IF ~Truthy(base.phone) /\ apollo_data.apollo_phone_numbers # <<>>
                            THEN apollo_data.apollo_phone_numbers[1] ELSE base.phone,
                  website |-> IF ~Truthy(base.website) /\ Truthy(apollo_data.apollo_website)
                              THEN apollo_data.apollo_website ELSE base.website]

\* one call of _prepare_lead_for_db
PrepareLeadForDb ==
    /\ ~prepared.called
    /\ \E scout_lead \in ScoutLeads, apollo_data \in ApolloDatas :
          prepared' = [called |-> TRUE,
                       scout_lead |-> scout_lead, apollo_data |-> apollo_data,
                       lead_data |-> PrepareLeadForDbOf(scout_lead, apollo_data)]
    /\ UNCHANGED <<notPrepare>>

\* the caller has taken the dictionary
PreparedTaken ==
    /\ prepared.called
    /\ prepared' = NoPrepared
    /\ UNCHANGED <<notPrepare>>

NextPrepare == PrepareLeadForDb \/ PreparedTaken

SpecPrepare == Init /\ [][NextPrepare]_vars

\* ==== batch enrichment with overlapping lookups ============================
\* recruit_leads hands its batch to call_apollo, enrich_multiple_people
\* starts one lookup per lead and gathers them; the lookups complete in any
\* order.  A lookup's result is tagged with the npi of the lead it was issued
\* for, so that a result merged into the wrong lead shows.

\* the batches: leads with distinct npi, as recruit selects them
GatherBatches ==
    {b \in SeqsUpTo(GatherNpis, MaxGather) \ {<<>>} :
        \A j, k \in 1..Len(b) : j # k => b[j] # b[k]}

\* the results come back in the order the lookups completed
GatherResults_CompletionOrder(task_outs, order) ==
    [i \in 1..Len(task_outs) |-> task_outs[order[i]]]

\* apollo_client.py line 530: asyncio.gather returns the results in the order
\* of the awaitables passed in
GatherResults(task_outs, order) == [i \in 1..Len(task_outs) |-> task_outs[i]]

\* lead_service.py lines 208-237, ml_service.py lines 145-177,
\* apollo_client.py lines 516-528: one lookup is started per lead
GatherStart ==
    /\ gpc = "idle"
    /\ \E b \in GatherBatches :
        /\ people_data' = b
        /\ outs' = [i \in 1..Len(b) |-> Pending]
    /\ completed' = <<>>
    /\ written' = [n \in GatherNpis |-> NoResult]
    /\ gpc' = "gather"
    /\ UNCHANGED <<notGather, gathered, merged, gi>>

\* one of the running lookups returns: an email for its lead, or None
LookupCompletes ==
    /\ gpc = "gather"
    /\ \E i \in 1..Len(people_data) :
        /\ outs[i] = Pending
        /\ \E out \in {NoResult, EmailFor(people_data[i])} :
              outs' = [outs EXCEPT ![i] = out]
        /\ completed' = Append(completed, i)
    /\ UNCHANGED <<notGather, gpc, people_data, gathered, merged, gi, written>>

\* one of the running lookups raises (best_match["id"]): gather re-raises and
\* call_apollo lines 235-242 answer with the leads as passed in
LookupRaises ==
    /\ gpc = "gather"
    /\ \E i \in 1..Len(people_data) : outs[i] = Pending
    /\ merged' = [i \in 1..Len(people_data) |-> NoResult]
    /\ gi' = 1
    /\ gpc' = "update"
    /\ UNCHANGED <<notGather, people_data, outs, completed, gathered, written>>

\* apollo_client.py line 530: every lookup has returned, gather returns
GatherReturns ==
    /\ gpc = "gather"
    /\ \A i \in 1..Len(people_data) : outs[i] # Pending
    /\ gathered' = GatherResults(outs, completed)
    /\ gpc' = "merge"
    /\ UNCHANGED <<notGather, people_data, outs, completed, merged, gi, written>>

\* ml_service.py lines 183-209: for i, lead in enumerate(leads): results[i]
MergeByIndex ==
    /\ gpc = "merge"
    /\ merged' = [i \in 1..Len(people_data) |-> gathered[i]]
    /\ gi' = 1
    /\ gpc' = "update"
    /\ UNCHANGED <<notGather, people_data, outs, completed, gathered, written>>

\* lead_service.py lines 246-277: apollo_enriched[i] is written to the record
\* with the npi of unvisited_leads[i]
WriteByIndex ==
    /\ gpc = "update"
    /\ written' = IF merged[gi] # NoResult
                  THEN [written EXCEPT ![people_data[gi]] = merged[gi]]
                  ELSE written
    /\ IF gi = Len(people_data)
       THEN gpc' = "done" /\ UNCHANGED gi
       ELSE gi' = gi + 1 /\ UNCHANGED gpc
    /\ UNCHANGED <<notGather, people_data, outs, completed, gathered, merged>>

\* recruit returns
GatherDone ==
    /\ gpc = "done"
    /\ gpc' = "idle"
    /\ people_data' = <<>>
    /\ outs' = <<>>
    /\ completed' = <<>>
    /\ gathered' = <<>>
    /\ merged' = <<>>
    /\ gi' = 0
    /\ written' = [n \in GatherNpis |-> NoResult]
    /\ UNCHANGED <<notGather>>

NextGather ==
    \/ GatherStart
    \/ LookupCompletes
    \/ LookupRaises
    \/ GatherReturns
    \/ MergeByIndex
    \/ WriteByIndex
    \/ GatherDone

SpecGather == Init /\ [][NextGather]_vars

\* ==== outbound delivery: email_service.send_outreach_email =================
\* A delivery request runs beside the requests of worker w1; the two switch
\* at the await points.

\* core/config.py lines 11-52: the fields class Settings declares
SettingsFields ==
    {"MONGODB_URL", "DB_NAME", "PORT", "DEBUG", "ML_SERVICE_URL", "APOLLO_API_KEY",
     "APOLLO_TOTAL_CAP", "NEVERBOUNCE_API_KEY", "SMTP_HOST", "SMTP_PORT", "SMTP_USER",
     "SMTP_PASSWORD", "MAIL_FROM", "MAIL_FROM_NAME", "GOOGLE_CLIENT_ID",
     "GOOGLE_CLIENT_SECRET", "JWT_SECRET_KEY", "JWT_ALGORITHM",
     "ACCESS_TOKEN_EXPIRE_MINUTES", "REFRESH_TOKEN_EXPIRE_DAYS", "ALLOWED_DOMAIN",
     "GOOGLE_REDIRECT_URI", "NPPES_API_URL", "NPPES_API_VERSION", "APOLLO_BASE_URL",
     "NEVERBOUNCE_BASE_URL"}

\* every attribute read on settings succeeds
SettingsHas_Any(field) == TRUE

\* settings.<field>: a declared field is read, any other name raises
\* AttributeError
SettingsHas(field) == field \in SettingsFields

\* the document as held in memory after Lead.get
AsLoaded(st, k) ==
    [id |-> k, npi |-> st[k].npi, city |-> st[k].city, specialty |-> st[k].specialty,
     email |-> st[k].email, has_email |-> st[k].has_email,
     is_emailed |-> st[k].is_emailed, visited |-> st[k].visited,
     apollo_searched |-> st[k].apollo_searched, apollo_email |-> st[k].apollo_email,
     enrichment_status |-> st[k].enrichment_status]

\* lines 100-102: lead.is_emailed = True; await lead.save().  save() writes
\* every field of the in-memory document
SaveLead(st, lead) ==
    [st EXCEPT ![lead.id] =
        [npi |-> lead.npi, city |-> lead.city, specialty |-> lead.specialty,
         email |-> lead.email, has_email |-> lead.has_email,
         is_emailed |-> TRUE, visited |-> lead.visited,
         apollo_searched |-> lead.apollo_searched, apollo_email |-> lead.apollo_email,
         enrichment_status |-> lead.enrichment_status]]

\* lines 44-52: the request arrives, with the id of a stored lead, with an
\* id that is not found (404), or without a lead id
DeliveryRead ==
    /\ dpc = "idle"
    /\ calls < MaxCalls
    /\ calls' = calls + 1
    /\ \E lead_id \in 0..(Len(store) + 1) :
        IF lead_id = Len(store) + 1
        THEN dpc' = "raised" /\ dlead' = NoLead
        ELSE /\ dpc' = "send"
             /\ dlead' = IF lead_id = 0 THEN NoLead ELSE AsLoaded(store, lead_id)
    /\ UNCHANGED <<raw, specialty, returned_count, engineVars, authVars, estimatorVars,
                   prepareVars, gatherVars, fetchVars, extractVars, classifierVars,
                   store, lookups, pc, op, location, providers,
                   idx, leads_loaded, with_email_count, unvisited_leads, apollo_enriched,
                   enriched_count, ready_leads, status, sent, store0, searched0, rerun,
                   selectedDone>>

\* lines 54-102: line 58 reads settings.GMAIL_CLIENT_ID, outside the try
\* block; when the read succeeds the email record is inserted and the lead
\* saved
DeliverySend ==
    /\ dpc = "send"
    /\ IF ~SettingsHas("GMAIL_CLIENT_ID")
       THEN /\ dpc' = "raised"
            /\ UNCHANGED store
       ELSE /\ dpc' = "done"
            /\ store' = IF dlead.id = 0 THEN store ELSE SaveLead(store, dlead)
    /\ UNCHANGED <<raw, specialty, returned_count, engineVars, authVars, estimatorVars,
                   prepareVars, gatherVars, fetchVars, extractVars, classifierVars,
                   dlead, lookups, pc, op, location, providers,
                   idx, leads_loaded, with_email_count, unvisited_leads, apollo_enriched,
                   enriched_count, ready_leads, status, sent, store0, searched0, rerun,
                   selectedDone, calls>>

\* the response (or the error) leaves the handler
DeliveryReturn ==
    /\ dpc \in {"done", "raised"}
    /\ dpc' = "idle"
    /\ dlead' = NoLead
    /\ UNCHANGED <<notDelivery>>

\* worker w1 runs bulk-loads and recruit calls while deliveries are requested
NextDelivery ==
    \/ LoadFetch("w1")
    \/ LoadCheck("w1")
    \/ LoadInsert("w1")
    \/ RecruitSelect("w1")
    \/ CallApollo("w1")
    \/ RecruitUpdate("w1")
    \/ RecruitReady("w1")
    \/ Return("w1")
    \/ DeliveryRead
    \/ DeliverySend
    \/ DeliveryReturn

SpecDelivery == Init /\ [][NextDelivery]_vars

\* ==== registry search, counted: nppes_client.search_providers ===============
\* The same function as SearchProviders above, followed by the numbers of
\* entries asked for, received and returned rather than by the entries.

\* the limits callers pass: load_leads_from_nppes passes 50, call_scout its
\* count argument
Limits == {1, 2, 5, 10, 25, 50, 60}

\* how many entries the registry holds for a query
RegistryTotals == {0, 1, 4, 10, 49, 50, 75, 200}

\* line 130: "limit": min(limit * 2, 50)
PageLimit(lim) == Min(lim * 2, PageCap)

\* lines 125-147: the one GET of the function; params holds no offset
\* ("skip"), so the page starts at entry 0.  A transport or HTTP error is
\* answered with [] (lines 266-271)
SearchProvidersGet ==
    /\ fpc = "idle"
    /\ \E lim \in Limits, total \in RegistryTotals, ok \in BOOLEAN :
        /\ limit' = lim
        /\ registry_total' = total
        /\ IF ok
           THEN /\ requests' = <<[skip |-> 0, limit |-> PageLimit(lim),
                                  got |-> Min(total, PageLimit(lim))]>>
                /\ fpc' = "extract"
                /\ UNCHANGED returned
           ELSE /\ requests' = <<[skip |-> 0, limit |-> PageLimit(lim), got |-> 0]>>
                /\ returned' = 0
                /\ fpc' = "failed"
    /\ UNCHANGED <<notFetch>>

\* lines 147-273: results[:limit] is extracted, entries without a name or an
\* address are dropped, the list is returned; no further GET follows
SearchProvidersExtract ==
    /\ fpc = "extract"
    /\ \E dropped \in 0..Min(1, Min(limit, requests[1].got)) :
          returned' = Min(limit, requests[1].got) - dropped
    /\ fpc' = "returned"
    /\ UNCHANGED <<notFetch, limit, registry_total, requests>>

\* the caller has the list
SearchProvidersTaken ==
    /\ fpc \in {"returned", "failed"}
    /\ fpc' = "idle"
    /\ limit' = 0
    /\ registry_total' = 0
    /\ requests' = <<>>
    /\ returned' = 0
    /\ UNCHANGED <<notFetch>>

NextFetch ==
    \/ SearchProvidersGet
    \/ SearchProvidersExtract
    \/ SearchProvidersTaken

SpecFetch == Init /\ [][NextFetch]_vars

\* ==== field extraction: nppes_client.search_providers lines 147-273 =========
\* One entry of the registry's "results" with the fields the keep-or-drop
\* decision and the choice of address read.

\* one element of "addresses"
Address(purpose, address_1) == [address_purpose |-> purpose, address_1 |-> address_1]
Addresses ==
    {Address("MAILING", "1 Main St"), Address("MAILING", "2 Oak Ave"),
     Address("LOCATION", "3 Elm Rd")}

\* basic.first_name is a string, missing (read as ""), or null; basic.last_name
\* a string or missing; "addresses" a list, missing (read as [])
Entries ==
    [first_name : {"ann", "", None},
     last_name : {"LEE", ""},
     addresses : SeqsUpTo(Addresses, 2)]

\* str.title() on the names of the model
Title(str) ==
    CASE str = "ann" -> "Ann"
      [] str = "LEE" -> "Lee"
      [] OTHER -> str

\* the first address of the list is taken whatever its purpose
PracticeAddress_First(addresses) ==
    IF addresses = <<>> THEN None ELSE addresses[1].address_1

\* lines 164-172: the first address tagged LOCATION, else the first address,
\* else None; reduced to address_1
PracticeAddress(addresses) ==
    LET located == {k \in 1..Len(addresses) : addresses[k].address_purpose = "LOCATION"}
    IN  IF located # {}
        THEN addresses[CHOOSE k \in located : \A j \in located : k <= j].address_1
        ELSE IF addresses # <<>> THEN addresses[1].address_1
        ELSE None

\* lines 152-175: the entry is skipped by one of the two continue statements
Skipped(e) ==
    \/ ~Truthy(Title(e.first_name)) \/ ~Truthy(Title(e.last_name))
    \/ PracticeAddress(e.addresses) = None

\* lines 147-264: the providers built from the results, each with the
\* position of its entry
RECURSIVE ExtractFrom(_, _)
ExtractFrom(rs, k) ==
    IF k > Len(rs) THEN <<>>
    ELSE IF Skipped(rs[k]) THEN ExtractFrom(rs, k + 1)
    ELSE <<[entry |-> k,
            name |-> <<"Dr.", Title(rs[k].first_name), Title(rs[k].last_name)>>,
            address |-> PracticeAddress(rs[k].addresses)]>>
         \o ExtractFrom(rs, k + 1)

\* None.title() raises for a null name; the except clause of lines 269-271
\* returns []
ExtractionRaises(rs) == \E k \in 1..Len(rs) : rs[k].first_name = None

\* one run of the loop over a response
ExtractResults ==
    /\ ~extraction.called
    /\ \E rs \in SeqsUpTo(Entries, MaxBatch) :
          extraction' = [called |-> TRUE, results |-> rs,
                         raised |-> ExtractionRaises(rs),
                         providers |-> IF ExtractionRaises(rs) THEN <<>>
                                       ELSE ExtractFrom(rs, 1)]
    /\ UNCHANGED <<notExtract>>

\* the caller has the providers
ExtractionTaken ==
    /\ extraction.called
    /\ extraction' = NoExtraction
    /\ UNCHANGED <<notExtract>>

NextExtract == ExtractResults \/ ExtractionTaken

SpecExtract == Init /\ [][NextExtract]_vars

\* ==== relevance classification: _is_medical_organization ====================
\* Strings are sequences of characters, as for the size estimation.

\* str.strip(): leading and trailing blanks removed
RECURSIVE StripLeft(_)
StripLeft(str) ==
    IF str # <<>> /\ Head(str) = " " THEN StripLeft(Tail(str)) ELSE str
RECURSIVE StripRight(_)
StripRight(str) ==
    IF str # <<>> /\ str[Len(str)] = " "
    THEN StripRight(SubSeq(str, 1, Len(str) - 1)) ELSE str
Strip(str) == StripRight(StripLeft(str))

\* str.endswith(suffix)
EndsWith(str, suffix) ==
    /\ Len(suffix) <= Len(str)
    /\ SubSeq(str, Len(str) - Len(suffix) + 1, Len(str)) = suffix

\* lines 59-71
medical_keywords ==
    <<<<"h", "o", "s", "p", "i", "t", "a", "l">>,
      <<"m", "e", "d", "i", "c", "a", "l", " ", "c", "e", "n", "t", "e", "r">>,
      <<"c", "l", "i", "n", "i", "c">>,
      <<"h", "e", "a", "l", "t", "h", "c", "a", "r", "e">>,
      <<"h", "e", "a", "l", "t", "h">>,
      <<"p", "h", "y", "s", "i", "c", "i", "a", "n">>,
      <<"d", "o", "c", "t", "o", "r", "s">>,
      <<"m", "d">>,
      <<"m", "e", "d", "i", "c", "i", "n", "e">>,
      <<"u", "n", "i", "v", "e", "r", "s", "i", "t", "y", " ", "h", "o", "s", "p", "i", "t", "a", "l">>,
      <<"m", "e", "d", "i", "c", "a", "l", " ", "g", "r", "o", "u", "p">>,
      <<"p", "r", "i", "m", "a", "r", "y", " ", "c", "a", "r", "e">>,
      <<"c", "a", "r", "d", "i", "o", "l", "o", "g", "y">>,
      <<"o", "n", "c", "o", "l", "o", "g", "y">>,
      <<"s", "u", "r", "g", "e", "r", "y">>,
      <<"s", "u", "r", "g", "i", "c", "a", "l">>,
      <<"o", "r", "t", "h", "o", "p", "e", "d", "i", "c">>,
      <<"e", "m", "e", "r", "g", "e", "n", "c", "y">>,
      <<"e", "n", "t">>,
      <<"r", "a", "d", "i", "o", "l", "o", "g", "y">>,
      <<"p", "a", "t", "h", "o", "l", "o", "g", "y">>,
      <<"p", "s", "y", "c", "h", "i", "a", "t", "r", "y">>,
      <<"n", "e", "u", "r", "o", "l", "o", "g", "y">>,
      <<"p", "e", "d", "i", "a", "t", "r", "i", "c">>,
      <<"c", "a", "n", "c", "e", "r", " ", "c", "e", "n", "t", "e", "r">>,
      <<"r", "e", "s", "e", "a", "r", "c", "h", " ", "c", "e", "n", "t", "e", "r">>,
      <<"m", "e", "d", "i", "c", "a", "l", " ", "s", "c", "h", "o", "o", "l">>,
      <<"n", "u", "r", "s", "i", "n", "g">>,
      <<"d", "e", "n", "t", "a", "l">>,
      <<"o", "p", "t", "o", "m", "e", "t", "r", "y">>,
      <<"p", "h", "y", "s", "i", "c", "a", "l", " ", "t", "h", "e", "r", "a", "p", "y">>,
      <<"t", "h", "e", "r", "a", "p", "y">>,
      <<"r", "e", "h", "a", "b">>,
      <<"u", "r", "g", "e", "n", "t", " ", "c", "a", "r", "e">>,
      <<"f", "a", "m", "i", "l", "y", " ", "m", "e", "d", "i", "c", "i", "n", "e">>,
      <<"i", "n", "t", "e", "r", "n", "a", "l", " ", "m", "e", "d", "i", "c", "i", "n", "e">>,
      <<"s", "u", "r", "g", "e", "r", "y", " ", "c", "e", "n", "t", "e", "r">>,
      <<"v", "e", "t", "e", "r", "a", "n", "s", " ", "a", "f", "f", "a", "i", "r", "s">>,
      <<"v", "a", " ", "h", "o", "s", "p", "i", "t", "a", "l">>,
      <<"v", "a", " ", "m", "e", "d", "i", "c", "a", "l">>,
      <<"k", "a", "i", "s", "e", "r">>,
      <<"a", "e", "t", "n", "a">>,
      <<"c", "i", "g", "n", "a">>,
      <<"u", "n", "i", "t", "e", "d", " ", "h", "e", "a", "l", "t", "h">>,
      <<"a", "n", "t", "h", "e", "m">>,
      <<"h", "u", "m", "a", "n", "a">>,
      <<"b", "l", "u", "e", " ", "c", "r", "o", "s", "s">>,
      <<"m", "o", "u", "n", "t", " ", "s", "i", "n", "a", "i">>,
      <<"m", "j", "h", "s">>,
      <<"n", "y", "c", " ", "h", "e", "a", "l", "t", "h">>,
      <<"h", "e", "a", "l", "t", "h", " ", "s", "y", "s", "t", "e", "m">>,
      <<"m", "e", "d", "i", "c", "a", "l", " ", "p", "r", "a", "c", "t", "i", "c", "e">>>>

\* lines 74-81
non_medical_keywords ==
    <<<<"s", "c", "h", "o", "o", "l">>,
      <<"u", "n", "i", "v", "e", "r", "s", "i", "t", "y">>,
      <<"c", "o", "l", "l", "e", "g", "e">>,
      <<"e", "d", "u", "c", "a", "t", "i", "o", "n">>,
      <<"m", "a", "n", "u", "f", "a", "c", "t", "u", "r", "i", "n", "g">>,
      <<"d", "i", "s", "t", "r", "i", "b", "u", "t", "i", "o", "n">>,
      <<"l", "o", "g", "i", "s", "t", "i", "c", "s">>,
      <<"r", "e", "t", "a", "i", "l">>,
      <<"f", "i", "n", "a", "n", "c", "e">>,
      <<"i", "n", "s", "u", "r", "a", "n", "c", "e">>,
      <<"r", "e", "a", "l", " ", "e", "s", "t", "a", "t", "e">>,
      <<"c", "o", "n", "s", "t", "r", "u", "c", "t", "i", "o", "n">>,
      <<"t", "e", "c", "h", "n", "o", "l", "o", "g", "y">>,
      <<"s", "o", "f", "t", "w", "a", "r", "e">>,
      <<"c", "o", "n", "s", "u", "l", "t", "i", "n", "g">>,
      <<"m", "a", "r", "k", "e", "t", "i", "n", "g">>,
      <<"p", "u", "b", "l", "i", "s", "h", "i", "n", "g">>,
      <<"m", "e", "d", "i", "a">>,
      <<"e", "n", "t", "e", "r", "t", "a", "i", "n", "m", "e", "n", "t">>,
      <<"r", "e", "s", "t", "a", "u", "r", "a", "n", "t">>,
      <<"b", "a", "n", "k">>,
      <<"c", "r", "e", "d", "i", "t", " ", "u", "n", "i", "o", "n">>,
      <<"a", "u", "t", "o", "m", "o", "t", "i", "v", "e">>>>

\* the words the organization names of the model are made of
OrgWords ==
    {<<"M", "e", "r", "c", "y">>,
     <<"H", "o", "s", "p", "i", "t", "a", "l">>,
     <<"S", "o", "f", "t", "w", "a", "r", "e">>,
     <<"S", "c", "h", "o", "o", "l">>,
     <<"M", "e", "d", "i", "c", "a", "l">>,
     <<"A", "c", "m", "e">>}

\* names of one or two words, and the empty name
OrgNames == {<<>>} \cup {JoinWords(ws) : ws \in SeqsUpTo(OrgWords, 2) \ {<<>>}}

EmailDomains ==
    {<<>>,
     <<"a", "c", "m", "e", ".", "c", "o", "m">>,
     <<"a", "c", "m", "e", ".", "o", "r", "g">>,
     <<"A", "c", "m", "e", ".", "O", "R", "G", " ">>,
     <<"m", "e", "r", "c", "y", "h", "e", "a", "l", "t", "h", ".", "c", "o", "m">>,
     <<"c", "a", "r", "e", ".", "m", "e", "d", "i", "c", "a", "l">>,
     <<"m", "y", ".", "c", "l", "i", "n", "i", "c", ".", "n", "e", "t">>}

\* a medical domain is recognised by its ending only
HasMedicalEmail_SuffixOnly(email_domain_lower) ==
    \/ EndsWith(email_domain_lower, <<".", "o", "r", "g">>)
    \/ EndsWith(email_domain_lower, <<".", "h", "e", "a", "l", "t", "h", "c", "a", "r", "e">>)
    \/ EndsWith(email_domain_lower, <<".", "m", "e", "d", "i", "c", "a", "l">>)

\* lines 89-97
HasMedicalEmail(email_domain_lower) ==
    \/ EndsWith(email_domain_lower, <<".", "o", "r", "g">>)
    \/ EndsWith(email_domain_lower, <<".", "h", "e", "a", "l", "t", "h", "c", "a", "r", "e">>)
    \/ EndsWith(email_domain_lower, <<".", "m", "e", "d", "i", "c", "a", "l">>)
    \/ Contains(email_domain_lower, <<"h", "e", "a", "l", "t", "h">>)
    \/ Contains(email_domain_lower, <<"h", "o", "s", "p", "i", "t", "a", "l">>)
    \/ Contains(email_domain_lower, <<"c", "l", "i", "n", "i", "c">>)
    \/ Contains(email_domain_lower, <<"m", "e", "d", "i", "c", "a", "l">>)

\* lines 42-108
IsMedicalOrganization(org_name, email_domain) ==
    IF org_name = <<>> /\ email_domain = <<>> THEN FALSE
    ELSE LET org_lower == Strip(Lower(org_name))
             email_domain_lower == Strip(Lower(email_domain))
             has_medical_org ==
                 \E k \in 1..Len(medical_keywords) : Contains(org_lower, medical_keywords[k])
             has_medical_email == HasMedicalEmail(email_domain_lower)
         IN  IF /\ \E k \in 1..Len(non_medical_keywords) :
                      Contains(org_lower, non_medical_keywords[k])
                /\ ~has_medical_org
             THEN FALSE
             ELSE has_medical_org \/ has_medical_email

\* one call of _is_medical_organization
Classify ==
    /\ ~classified.called
    /\ \E org_name \in OrgNames, email_domain \in EmailDomains :
          classified' = [called |-> TRUE, org_name |-> org_name,
                         email_domain |-> email_domain,
                         is_medical |-> IsMedicalOrganization(org_name, email_domain)]
    /\ UNCHANGED <<notClassifier>>

\* the caller has the answer
ClassificationTaken ==
    /\ classified.called
    /\ classified' = NoClassification
    /\ UNCHANGED <<notClassifier>>

NextClassifier == Classify \/ ClassificationTaken

SpecClassifier == Init /\ [][NextClassifier]_vars

\* ==== properties ===========================================================

BatchIds(w) == {unvisited_leads[w][k].id : k \in 1..Len(unvisited_leads[w])}

RecruitRunning(w) ==
    op[w] = "recruit" /\ pc[w] \in {"recruit_apollo", "recruit_update", "recruit_ready"}

RecruitDone(w) == op[w] = "recruit" /\ pc[w] = "done"
LoadDone(w) == op[w] = "load" /\ pc[w] = "done"

\* C1: across any sequence of recruit calls run one at a time, the number of
\* stored documents with apollo_searched = true never exceeds APOLLO_TOTAL_CAP.
BudgetNeverExceeded == SearchedCount(store) <= APOLLO_TOTAL_CAP

\* C2: with requests run one at a time, a document selected by a completed
\* recruit call is visited (match or no match), was handed to the Match Engine
\* at most once, and is in the batch of no later recruit call.
NeverReselected ==
    /\ \A k \in selectedDone : store[k].visited /\ lookups[k] <= 1
    /\ \A w \in Workers : RecruitRunning(w) => BatchIds(w) \cap selectedDone = {}

\* a later recruit call runs after a call that selected a document and found
\* no match for it
NeverReselectedWitness ==
    \E w \in Workers :
        /\ RecruitRunning(w)
        /\ \E k \in selectedDone :
              store[k].enrichment_status = "scout_only" /\ lookups[k] = 1

\* C3: also when recruit calls overlap, no document is handed to the Match
\* Engine more than once in its lifetime.
NoDuplicateSpend == \A k \in 1..Len(lookups) : lookups[k] <= 1

\* C4: a recruit call that starts with remaining credit r and selects n
\* documents without an email hands exactly min(r, n) leads to the Match
\* Engine, marks every selected document visited, and raises the global
\* count of apollo_searched documents by exactly min(r, n).
Remaining0(w) == Max(0, APOLLO_TOTAL_CAP - searched0[w])
NeedSearch(w) ==
    Cardinality({k \in 1..Len(unvisited_leads[w]) : ~Truthy(unvisited_leads[w][k].email)})

BudgetedSearch ==
    \A w \in Workers :
        RecruitDone(w) =>
            /\ sent[w] = Min(Remaining0(w), NeedSearch(w))
            /\ \A k \in BatchIds(w) : store[k].visited
            /\ SearchedCount(store) - searched0[w] = Min(Remaining0(w), NeedSearch(w))

\* C5: in every step a document that is visited stays visited and a document
\* that is apollo_searched stays apollo_searched.
MonotonicFlags ==
    [][\A k \in 1..Len(store) :
          /\ k <= Len(store')
          /\ store[k].visited => store'[k].visited
          /\ store[k].apollo_searched => store'[k].apollo_searched]_vars

\* a bulk-load that fetched the identifier of a document already visited and
\* searched when the load began has completed
MonotonicFlagsWitness ==
    \E w \in Workers :
        /\ LoadDone(w)
        /\ \E k \in 1..Len(store0[w]), j \in 1..Len(providers[w]) :
              /\ store0[w][k].visited
              /\ store0[w][k].apollo_searched
              /\ providers[w][j].npi = store0[w][k].npi

\* C6: every stored document has has_email = (email is set and non-empty).
HasEmailInvariant ==
    \A k \in 1..Len(store) :
        store[k].has_email = (store[k].email # None /\ store[k].email # "")

\* the store holds a document whose email came from the registry, one that
\* was loaded without an email, and one whose email recruit merged in
HasEmailWitness ==
    /\ \E k \in 1..Len(store) : store[k].email = ApolloEmail /\ store[k].has_email
    /\ \E k \in 1..Len(store) : store[k].email = DirectAddress /\ store[k].has_email
    /\ \E w \in Workers : op[w] = "create" /\ pc[w] = "done"

\* C7: a bulk-load repeated right after the first with the same registry
\* response reports leads_loaded = 0 and leaves the collection as it was.
IdempotentIngestion ==
    \A w \in Workers :
        LoadDone(w) /\ rerun[w] =>
            /\ leads_loaded[w] = 0
            /\ store = store0[w]
            /\ status[w] = "success"

\* the repeated bulk-load has completed, and its response holds providers the
\* first run inserted
IdempotentIngestionWitness ==
    \E w \in Workers :
        /\ LoadDone(w)
        /\ rerun[w]
        /\ providers[w] # <<>>
        /\ \A j \in 1..Len(providers[w]) :
              \E k \in 1..Len(store) : store[k].npi = providers[w][j].npi

\* C8: with requests run one at a time, no two stored documents share an npi,
\* and a completed bulk-load counted exactly the distinct fetched identifiers
\* that were not stored before (duplicates are skipped, not errors).
NpisOf(seq) == {seq[k].npi : k \in 1..Len(seq)}

DedupCorrect ==
    /\ \A j, k \in 1..Len(store) : j # k => store[j].npi # store[k].npi
    /\ \A w \in Workers :
          LoadDone(w) =>
              /\ status[w] = "success"
              /\ leads_loaded[w] = Len(store) - Len(store0[w])
              /\ leads_loaded[w] = Cardinality(NpisOf(providers[w]) \ NpisOf(store0[w]))

\* a completed bulk-load whose batch named one new identifier twice
DedupCorrectWitness ==
    \E w \in Workers :
        /\ LoadDone(w)
        /\ Len(providers[w]) = 2
        /\ providers[w][1].npi = providers[w][2].npi
        /\ providers[w][1].npi \notin NpisOf(store0[w])
        /\ leads_loaded[w] = 1

\* C9: also when bulk-loads overlap, the collection never holds two documents
\* with the same npi.
UniqueNpi == \A j, k \in 1..Len(store) : j < k => store[j].npi # store[k].npi

\* C10: a document that had a non-empty email when recruit selected it, and
\* for which the Match Engine returned a different email, keeps its email and
\* has_email = true after recruit's update.
MergePrecedence ==
    \A w \in Workers :
        op[w] = "recruit" =>
            \A j \in 1..Len(unvisited_leads[w]) :
                LET lead == unvisited_leads[w][j]
                IN  (/\ j < idx[w]
                     /\ pc[w] \in {"recruit_update", "recruit_ready", "done"}
                     /\ Truthy(lead.email)
                     /\ Truthy(apollo_enriched[w][j])
                     /\ apollo_enriched[w][j] # lead.email)
                    => (store[lead.id].email = lead.email /\ store[lead.id].has_email)

\* recruit has updated a document that had a registry email and for which the
\* Match Engine found another one
MergePrecedenceWitness ==
    \E w \in Workers :
        /\ RecruitDone(w)
        /\ \E j \in 1..Len(unvisited_leads[w]) :
              /\ unvisited_leads[w][j].email = DirectAddress
              /\ apollo_enriched[w][j] = ApolloEmail
              /\ store[unvisited_leads[w][j].id].apollo_email = ApolloEmail

\* ---- Match Engine ---------------------------------------------------------

\* a lookup on the name-only path has a winning strategy
HasCandidates == epc \in {"gate", "detail", "finished", "raised"} /\ people # <<>>

\* C11: on the name-only path, when the first candidate of the sorted list has
\* a score below 0.6 no detail lookup is issued and the lookup returns no
\* match; a detail lookup is issued at most once, for the candidate with the
\* highest score, and only when that score is at least 0.6.
RelevanceGateHolds ==
    HasCandidates =>
        /\ \A k \in 1..Len(people) : people[k]._score <= people[1]._score
        /\ Len(detail_ids) <= 1
        /\ \A k \in 1..Len(detail_ids) : detail_ids[k] = people[1].id
        /\ (detail_ids # <<>> \/ epc = "detail") => people[1]._score >= MEDICAL_THRESHOLD
        /\ people[1]._score < MEDICAL_THRESHOLD =>
              /\ detail_ids = <<>>
              /\ epc \in {"gate", "finished"}
              /\ epc = "finished" => result = None

\* a name-only lookup has ended at the gate: two candidates were found, the
\* better one scores 0.5
RelevanceGateWitness ==
    /\ epc = "finished"
    /\ Len(people) = 2
    /\ people[1]._score = 5
    /\ people[1].id = 2
    /\ detail_ids = <<>>
    /\ result = None

\* C12: when call_apollo has answered, the result of every lookup that
\* completed is merged into the lead at the same index: a lookup that failed
\* is a None for its own lead and takes no other lead's result away.
BatchFailureIsolation ==
    epc = "returned" =>
        /\ Len(enriched_leads) = Len(batch)
        /\ \A k \in 1..Len(results) : enriched_leads[k] = results[k]

\* the person being looked up takes the name-only path and has no city or no
\* state
NameOnlyMissingQualifier ==
    /\ epc \in {"search", "gate", "detail", "finished", "raised"}
    /\ ~Truthy(EffectiveOrg(batch[cur].organization_name))
    /\ ~Truthy(batch[cur].city) \/ ~Truthy(batch[cur].state)

\* no strategy is requested whose qualifier is missing; the unqualified
\* strategy is the last one tried and is reached whenever the others found
\* nobody; a lookup that ended returned one email or none
QualifiersOptional ==
    /\ \A k \in 1..Len(searches) :
          /\ searches[k] = "city_state" => Truthy(batch[cur].city) /\ Truthy(batch[cur].state)
          /\ searches[k] = "state_only" => Truthy(batch[cur].state)
    /\ epc = "search" => strategies # <<>> /\ strategies[Len(strategies)] = "no_location"
    /\ strategy_used = "failed" => searches # <<>> /\ searches[Len(searches)] = "no_location"
    /\ epc = "finished" => result \in {None, ApolloEmail}

LoadFetched(w) == op[w] = "load" /\ pc[w] # "idle"

\* C14: when the registry was unavailable or its body unreadable, the fetch
\* yields no provider, the bulk-load leaves the collection as it was, and its
\* response carries a failure status, not "success".
RegistryFailureReported ==
    \A w \in Workers :
        LoadFetched(w) /\ raw[w].outcome \in {"unavailable", "malformed"} =>
            /\ providers[w] = <<>>
            /\ store = store0[w]
            /\ status[w] # "success"

\* C15: the fetch returns every well-formed entry of the response, in order,
\* whatever malformed entries (name missing or null) stand before or after
\* it, and a completed bulk-load has every one of them in the collection.
MalformedEntrySkipped ==
    \A w \in Workers :
        LoadFetched(w) /\ raw[w].outcome = "ok" =>
            /\ providers[w] = Extract(Limit(raw[w].results, FetchLimit), location[w])
            /\ LoadDone(w) =>
                  \A k \in 1..Len(raw[w].results) :
                      WellFormed(raw[w].results[k]) =>
                          raw[w].results[k].number \in NpisOf(store)

\* C16: when the insert of one fetched record has failed, the other records
\* after it in the batch are in the collection all the same.
SiblingsSurviveInsertFailure ==
    \A w \in Workers :
        op[w] = "load" /\ pc[w] = "raised" =>
            \A j \in (idx[w] + 1)..Len(providers[w]) :
                providers[w][j].npi # providers[w][idx[w]].npi =>
                    providers[w][j].npi \in NpisOf(store)

\* ---- what recruit returns and what it searches ----------------------------

NoSearchForKnownEmail ==
    \A w \in Workers :
        RecruitDone(w) =>
            \A j \in 1..Len(unvisited_leads[w]) :
                Truthy(unvisited_leads[w][j].email) =>
                    /\ lookups[unvisited_leads[w][j].id] = 0
                    /\ ~store[unvisited_leads[w][j].id].apollo_searched

\* ---- authentication -------------------------------------------------------

\* C18: once a logout has completed, no run of get_current_user succeeds with
\* a token that stems from a login before that logout: neither an access
\* token issued then nor an access token obtained at /refresh from a refresh
\* token issued then.
LogoutRevokesAll == ~(authed.ok /\ authed.stale)

\* ---- size estimation ------------------------------------------------------

\* the estimate is the label of the first keyword set, in the order Large,
\* Medium, Small, Solo, that has a keyword contained in the lower-cased name,
\* with the confidence of that label and a keyword of that set
FirstKeywordSetWins ==
    \A n \in 1..Len(SIZE_KEYWORDS) :
        (/\ \E k \in 1..Len(SIZE_KEYWORDS[n].keywords) :
                Contains(Lower(est.name), SIZE_KEYWORDS[n].keywords[k])
         /\ \A m \in 1..(n - 1) : \A k \in 1..Len(SIZE_KEYWORDS[m].keywords) :
                ~Contains(Lower(est.name), SIZE_KEYWORDS[m].keywords[k]))
        => /\ est.clinic_size = <<"Large", "Medium", "Small", "Solo">>[n]
           /\ est.confidence = IF n <= 2 THEN 75 ELSE 65
           /\ \E k \in 1..Len(SIZE_KEYWORDS[n].keywords) :
                 est.keyword = SIZE_KEYWORDS[n].keywords[k]
           /\ Contains(Lower(est.name), est.keyword)

\* C19 as stated: "Springfield Medical Group" is estimated Medium at
\* confidence 0.75 with the keyword "group" cited, and the estimate is always
\* the label of the first matching keyword set.
SpringfieldIsMedium ==
    /\ est.name = SpringfieldMedicalGroup =>
          /\ est.clinic_size = "Medium"
          /\ est.confidence = 75
          /\ est.keyword = <<"g", "r", "o", "u", "p">>
    /\ FirstKeywordSetWins

\* C19 amended: "Springfield Medical Group" is estimated Large at confidence
\* 0.75 with the keyword "medical group" cited, and the estimate is always
\* the label of the first matching keyword set.
SpringfieldIsLarge ==
    /\ est.name = SpringfieldMedicalGroup =>
          /\ est.clinic_size = "Large"
          /\ est.confidence = 75
          /\ est.keyword = <<"m", "e", "d", "i", "c", "a", "l", " ", "g", "r", "o", "u", "p">>
    /\ FirstKeywordSetWins

\* the size of "Springfield Medical Group" has been estimated
SpringfieldWitness == est.name = SpringfieldMedicalGroup /\ est.clinic_size # ""

\* ---- recruit: the searched flag -------------------------------------------

\* C21: when a recruit call has completed, a document of its batch is
\* apollo_searched exactly if a Match Engine lookup was issued for it; a
\* document for which no lookup was issued (client not configured) is not
\* flagged.
SearchedIffLookedUp ==
    \A w \in Workers :
        RecruitDone(w) =>
            \A k \in BatchIds(w) : store[k].apollo_searched = (lookups[k] > 0)

\* ---- merge for the database ----------------------------------------------

\* the first non-empty of three values, None if there is none
FirstNonEmpty(a, b, c) ==
    IF Truthy(a) THEN a ELSE IF Truthy(b) THEN b ELSE IF Truthy(c) THEN c ELSE None

\* C22: the email computed from a registry email, a registry direct-messaging
\* address and an enrichment email is the first non-empty of the three in
\* that order; a direct-messaging address is kept when the registry email is
\* empty and enrichment supplies an email.
EmailSourcePriority ==
    prepared.called =>
        prepared.lead_data.email =
            FirstNonEmpty(prepared.scout_lead.email,
                          prepared.scout_lead.direct_messaging_address,
                          prepared.apollo_data.apollo_email)

\* ---- Match Engine: order of the search strategies ------------------------

\* the person being looked up takes the name-only path
NameOnlyPath ==
    /\ epc \in {"search", "gate", "detail", "finished", "raised"}
    /\ ~Truthy(EffectiveOrg(batch[cur].organization_name))

StrategyRank(name) ==
    CASE name = "city_state" -> 1
      [] name = "state_only" -> 2
      [] name = "no_location" -> 3

\* the strategies the person's qualifiers allow
Applicable(person) ==
    (IF Truthy(person.city) /\ Truthy(person.state) THEN {"city_state"} ELSE {})
    \cup (IF Truthy(person.state) THEN {"state_only"} ELSE {})
    \cup {"no_location"}

Received == IF requests = <<>> THEN 0 ELSE requests[Len(requests)].skip + requests[Len(requests)].got

\* C26: a search that returned normally asked for successive pages (each
\* offset is the number of entries received before it) and stopped only when
\* the requested total was received or the last page was not full (the code
\* has no ceiling on the offset, so that third way to stop never applies);
\* it returns at most limit entries.
PaginationStops ==
    fpc = "returned" =>
        /\ returned <= limit
        /\ \A k \in 1..Len(requests) :
              requests[k].skip = (IF k = 1 THEN 0 ELSE requests[k - 1].skip + requests[k - 1].got)
        /\ \/ Received >= limit
           \/ requests[Len(requests)].got < requests[Len(requests)].limit

\* ---- field extraction ---------------------------------------------------------

\* the entries of the response that were kept
KeptEntries == {extraction.providers[j].entry : j \in 1..Len(extraction.providers)}

\* a kept entry carries its LOCATION address if it has one, else its first
\* address
AddressPreferred ==
    \A j \in 1..Len(extraction.providers) :
        LET e == extraction.results[extraction.providers[j].entry]
            address == extraction.providers[j].address
        IN  IF \E a \in 1..Len(e.addresses) : e.addresses[a].address_purpose = "LOCATION"
            THEN \E a \in 1..Len(e.addresses) :
                    /\ e.addresses[a].address_purpose = "LOCATION"
                    /\ e.addresses[a].address_1 = address
            ELSE address = e.addresses[1].address_1

MedicalName ==
    \E k \in 1..Len(medical_keywords) :
        Contains(Strip(Lower(classified.org_name)), medical_keywords[k])

\* the name contains a non-medical keyword
NonMedicalName ==
    \E k \in 1..Len(non_medical_keywords) :
        Contains(Strip(Lower(classified.org_name)), non_medical_keywords[k])

\* the email domain ends in .org, .healthcare or .medical, or contains
\* health, hospital, clinic or medical
MedicalDomain ==
    LET d == Strip(Lower(classified.email_domain))
    IN  \/ \E suffix \in {<<".", "o", "r", "g">>,
                           <<".", "h", "e", "a", "l", "t", "h", "c", "a", "r", "e">>,
                           <<".", "m", "e", "d", "i", "c", "a", "l">>} : EndsWith(d, suffix)
        \/ \E part \in {<<"h", "e", "a", "l", "t", "h">>,
                         <<"h", "o", "s", "p", "i", "t", "a", "l">>,
                         <<"c", "l", "i", "n", "i", "c">>,
                         <<"m", "e", "d", "i", "c", "a", "l">>} : Contains(d, part)

\* C28 as stated: the organization is judged healthcare-related if its name
\* contains a medical keyword or its email domain is a medical one; a
\* non-medical keyword in the name does not override a medical keyword in
\* the name; the answer is false when neither name nor domain is medical.
MedicalIfNameOrDomain ==
    classified.called =>
        /\ (MedicalName \/ MedicalDomain) => classified.is_medical
        /\ (MedicalName /\ NonMedicalName) => classified.is_medical
        /\ (~MedicalName /\ ~MedicalDomain) => ~classified.is_medical

\* C28 amended: the organization is judged healthcare-related exactly if
\* its name contains a medical keyword, or its email domain is a medical one
\* and its name contains no non-medical keyword; a non-medical keyword in
\* the name does not override a medical keyword in the name.
MedicalIfNameOrUnopposedDomain ==
    classified.called =>
        /\ classified.is_medical = (MedicalName \/ (MedicalDomain /\ ~NonMedicalName))
        /\ (MedicalName /\ NonMedicalName) => classified.is_medical

\* an organization with a non-medical name and a medical email domain has
\* been classified
ClassifierWitness ==
    /\ classified.called
    /\ NonMedicalName
    /\ ~MedicalName
    /\ MedicalDomain
    /\ ~classified.is_medical

\* ---- recruit: progress --------------------------------------------------------

\* C29: a recruit call that selected unvisited documents and has completed
\* has lowered the number of unvisited documents by the number it selected:
\* every document of its batch is visited, so that repeated calls exhaust
\* the unvisited documents.
RecruitProgress ==
    \A w \in Workers :
        RecruitDone(w) => \A k \in BatchIds(w) : store[k].visited

\* ---- enrichment status ---------------------------------------------------------

\* C30: every stored document has enrichment_status scout_only or
\* apollo_enriched; apollo_enriched implies a non-empty apollo_email,
\* visited and apollo_searched; a document is inserted as scout_only, not
\* visited and not apollo_searched.
EnrichmentStatusConsistent ==
    /\ [](\A k \in 1..Len(store) :
            /\ store[k].enrichment_status \in {"scout_only", "apollo_enriched"}
            /\ store[k].enrichment_status = "apollo_enriched" =>
                  /\ Truthy(store[k].apollo_email)
                  /\ store[k].visited
                  /\ store[k].apollo_searched)
    /\ [][\A k \in (Len(store) + 1)..Len(store') :
              /\ store'[k].enrichment_status = "scout_only"
              /\ ~store'[k].visited
              /\ ~store'[k].apollo_searched]_vars

\* the store holds a document enriched by a match and a document that was
\* searched without a match
EnrichmentStatusWitness ==
    /\ \E k \in 1..Len(store) : store[k].enrichment_status = "apollo_enriched"
    /\ \E k \in 1..Len(store) :
          /\ store[k].enrichment_status = "scout_only"
          /\ store[k].visited
          /\ store[k].apollo_searched

====
